---- MODULE Spec2Model ----
(***************************************************************************)
(* A model of the LST translation backend: the three text normalizers      *)
(* (app.normalize_text, SignProcessor.normalize_text,                      *)
(* AnimationDatabase._normalize_sign_id), the index builds                 *)
(* (load_video_database, create_sign_database_from_files,                  *)
(* AnimationDatabase.load_from_filesystem) and the translate handlers      *)
(* (/translate, /api/avatar/translate, SignProcessor.process_text).        *)
(* The libraries are modelled with their files: AnimationDatabase with its  *)
(* manifest (load_from_manifest, save_manifest, get_animation_sequence)    *)
(* and AvatarManager with its config (load_avatars_from_config,            *)
(* register_avatar, set_default_avatar, get_avatar).                       *)
(* The Lemmatizer of the specification (section 4.2) has no code in the     *)
(* sources; its cascade is modelled from the specification.                *)
(*                                                                         *)
(* A string is a sequence of characters; a character is named by a TLA+    *)
(* string: "a".."z", "A".."Z", the precomposed accented letters            *)
(* "e_acute" (U+00E9), "E_ACUTE" (U+00C9), "o_circ" (U+00F4),              *)
(* "a_grave" (U+00E0), "c_cedil" (U+00E7), the combining marks "acute"     *)
(* (U+0301), "grave" (U+0300), "circ" (U+0302), "cedilla" (U+0327), all of *)
(* category Mn, the spacing combining marks "mc216" (U+1D165) and "mc226"  *)
(* (U+1D16D), of category Mc with canonical combining classes 216 and 226, *)
(* "ss_sharp" (U+00DF, whose upper case is "SS"), ASCII punctuation and    *)
(* the whitespace characters " " and "TAB".                                *)
(***************************************************************************)
EXTENDS Integers, Sequences, FiniteSets, TLC

\* ------------------------------------------------------------------------
\* Characters: what str.lower, unicodedata.normalize('NFD', .),
\* unicodedata.category, string.punctuation and str.split know about them.
\* ------------------------------------------------------------------------

LowerLetters ==
    <<"a", "b", "c", "d", "e", "f", "g", "h", "i", "j", "k", "l", "m",
      "n", "o", "p", "q", "r", "s", "t", "u", "v", "w", "x", "y", "z">>

UpperLetters ==
    <<"A", "B", "C", "D", "E", "F", "G", "H", "I", "J", "K", "L", "M",
      "N", "O", "P", "Q", "R", "S", "T", "U", "V", "W", "X", "Y", "Z">>

\* str.lower() on one character.
LowerChar(c) ==
    IF \E i \in 1..Len(UpperLetters) : UpperLetters[i] = c
    THEN LowerLetters[CHOOSE i \in 1..Len(UpperLetters) : UpperLetters[i] = c]
    ELSE IF c = "E_ACUTE" THEN "e_acute"
    ELSE c

\* The canonical decomposition of one character.
Decomp(c) ==
    CASE c = "e_acute" -> <<"e", "acute">>
      [] c = "E_ACUTE" -> <<"E", "acute">>
      [] c = "o_circ"  -> <<"o", "circ">>
      [] c = "a_grave" -> <<"a", "grave">>
      [] c = "c_cedil" -> <<"c", "cedilla">>
      [] OTHER         -> <<c>>

\* unicodedata.category(c) = 'Mn'.
IsMn(c) == c \in {"acute", "grave", "circ", "cedilla"}

\* unicodedata.combining(c): the canonical combining class.
CCC(c) ==
    CASE c \in {"acute", "grave", "circ"} -> 230
      [] c = "cedilla" -> 202
      [] c = "mc216"   -> 216
      [] c = "mc226"   -> 226
      [] OTHER         -> 0

\* string.punctuation, the characters of it the model's strings use.
Punctuation == {".", ",", "'", "-", "!", "?", "_"}

\* What str.split() and str.strip() take for whitespace.
Whitespace == {" ", "TAB"}

\* ------------------------------------------------------------------------
\* String helpers.
\* ------------------------------------------------------------------------

RECURSIVE Flatten(_)
Flatten(ss) == IF ss = <<>> THEN <<>> ELSE Head(ss) \o Flatten(Tail(ss))

\* text.lower()
Lower(s) == [i \in 1..Len(s) |-> LowerChar(s[i])]

\* The canonical ordering of NFD: a mark of a lower non-zero combining class
\* moves in front of an adjacent mark of a higher one.
RECURSIVE CanonOrder(_)
CanonOrder(s) ==
    LET bad == {i \in 1..(Len(s) - 1) : CCC(s[i + 1]) > 0 /\ CCC(s[i]) > CCC(s[i + 1])}
    IN  IF bad = {} THEN s
        ELSE LET i == CHOOSE j \in bad : \A k \in bad : j <= k
             IN  CanonOrder([s EXCEPT ![i] = s[i + 1], ![i + 1] = s[i]])

\* unicodedata.normalize('NFD', s)
NFD(s) == CanonOrder(Flatten([i \in 1..Len(s) |-> Decomp(s[i])]))

IsNotMn(c) == ~IsMn(c)

\* ''.join(char for char in NFD(text) if category(char) != 'Mn')
StripAccents(s) == SelectSeq(NFD(s), IsNotMn)

\* text.translate(str.maketrans('', '', string.punctuation))
IsNotPunct(c) == c \notin Punctuation
RemovePunct(s) == SelectSeq(s, IsNotPunct)

\* ... string.punctuation.replace('_', '')
IsNotPunctButUnderscore(c) == c \notin (Punctuation \ {"_"})
RemovePunctKeepUnderscore(s) == SelectSeq(s, IsNotPunctButUnderscore)

\* str.strip()
RECURSIVE LStrip(_)
LStrip(s) == IF s # <<>> /\ Head(s) \in Whitespace THEN LStrip(Tail(s)) ELSE s

RECURSIVE RStrip(_)
RStrip(s) ==
    IF s # <<>> /\ s[Len(s)] \in Whitespace THEN RStrip(SubSeq(s, 1, Len(s) - 1)) ELSE s

Strip(s) == RStrip(LStrip(s))

\* str.split(): the maximal runs of non-whitespace characters, in order.
RECURSIVE SplitFrom(_, _)
SplitFrom(s, cur) ==
    IF s = <<>> THEN (IF cur = <<>> THEN <<>> ELSE <<cur>>)
    ELSE IF Head(s) \in Whitespace
         THEN (IF cur = <<>> THEN <<>> ELSE <<cur>>) \o SplitFrom(Tail(s), <<>>)
         ELSE SplitFrom(Tail(s), Append(cur, Head(s)))

Split(s) == SplitFrom(s, <<>>)

\* sep.join(words)
RECURSIVE Join(_, _)
Join(sep, words) ==
    IF words = <<>> THEN <<>>
    ELSE IF Len(words) = 1 THEN Head(words)
    ELSE Head(words) \o <<sep>> \o Join(sep, Tail(words))

\* ------------------------------------------------------------------------
\* The three normalizers.
\* ------------------------------------------------------------------------

\* app.normalize_text
normalize_text(text) == Strip(RemovePunct(StripAccents(Lower(text))))

\* SignProcessor.normalize_text
SP_normalize_text(text) ==
    Strip(Join(" ", Split(RemovePunct(StripAccents(Lower(text))))))

\* AnimationDatabase._normalize_sign_id
normalize_sign_id(filename) ==
    Join("_", Split(RemovePunctKeepUnderscore(StripAccents(Lower(filename)))))

\* ------------------------------------------------------------------------
\* File names.
\* ------------------------------------------------------------------------

\* The index of the last "." of a file name, 0 when it has none.
LastDot(name) ==
    LET dots == {i \in 1..Len(name) : name[i] = "."}
    IN  IF dots = {} THEN 0 ELSE CHOOSE i \in dots : \A j \in dots : j <= i

\* os.path.splitext(filename): <<root, ext>>, the extension from the last
\* dot on; a name that has no dot, or only a leading one, has no extension.
splitext(name) ==
    IF LastDot(name) <= 1 THEN <<name, <<>>>>
    ELSE <<SubSeq(name, 1, LastDot(name) - 1), SubSeq(name, LastDot(name), Len(name))>>

\* s.endswith(suffix)
EndsWith(s, suffix) ==
    /\ Len(s) >= Len(suffix)
    /\ SubSeq(s, Len(s) - Len(suffix) + 1, Len(s)) = suffix

\* A mapping with no entry (a fresh dict).
EmptyMap == [k \in {} |-> <<>>]

\* A LemmaRuleSet with empty tables.
RulesNone ==
    [synonyms |-> EmptyMap, conjugations |-> EmptyMap, plural_exceptions |-> EmptyMap]

\* d[k] = v on a dict.
Put(d, k, v) == [x \in (DOMAIN d) \cup {k} |-> IF x = k THEN v ELSE d[x]]

\* ------------------------------------------------------------------------
\* The inputs: the directory tree the build walks and the request texts.
\* ------------------------------------------------------------------------

\* A discovered file is [dir, name]: os.walk's root and the file name.  Its
\* path relative to the asset root is the pair itself.
FileBonjour  == [dir |-> "salutations", name |-> <<"b", "o", "n", "j", "o", "u", "r", ".", "m", "p", "4">>]
FileBonjour2 == [dir |-> "divers", name |-> <<"B", "o", "n", "j", "o", "u", "r", ".", "m", "p", "4">>]
FileDocteur  == [dir |-> "medical", name |-> <<"d", "o", "c", "t", "e", "u", "r", ".", "M", "P", "4">>]
FileNotes    == [dir |-> "medical", name |-> <<"n", "o", "t", "e", "s", ".", "t", "x", "t">>]
FileAller    == [dir |-> "verbes", name |-> <<"a", "l", "l", "e", "r", ".", "m", "p", "4">>]
FileHopital  == [dir |-> "medical", name |-> <<"h", "o_circ", "p", "i", "t", "a", "l", ".", "m", "p", "4">>]
FileXyz      == [dir |-> "divers", name |-> <<"x", "y", "z", ".", "m", "p", "4">>]
FilePunct    == [dir |-> "divers", name |-> <<"!", ".", "m", "p", "4">>]
FileSalle    == [dir |-> "medical", name |-> <<"s", "a", "l", "l", "e", " ", "d", "'", "a", "t", "t", "e", "n", "t", "e", ".", "m", "p", "4">>]
AnimMedecin  == [dir |-> "medical", name |-> <<"m", "e_acute", "d", "e", "c", "i", "n", ".", "f", "b", "x">>]
AnimMedecin2 == [dir |-> "professions", name |-> <<"M", "e", "d", "e", "c", "i", "n", ".", "F", "B", "X">>]
AnimCoeur    == [dir |-> "anatomy", name |-> <<"c", "o", "e", "u", "r", ".", "g", "l", "t", "f">>]
AnimSalle    == [dir |-> "hospital", name |-> <<"s", "a", "l", "l", "e", " ", "d", "'", "a", "t", "t", "e", "n", "t", "e", ".", "b", "v", "h">>]

\* The files a video tree (VIDEO_BASE_PATH) can hold.
VideoFiles == {FileBonjour, FileBonjour2, FileDocteur, FileNotes, FileAller, FileHopital, FileXyz,
               FilePunct}

\* The file names a file_list given to create_sign_database_from_files can hold.
SignFiles == {FileBonjour, FileBonjour2, FileDocteur, FilePunct, FileAller, FileHopital,
              FileSalle}

\* The files an animation tree (animations_base_path) can hold.
AnimFiles == {AnimMedecin, AnimMedecin2, AnimCoeur, AnimSalle, FileBonjour}

\* The most files a directory tree of the model holds.
MaxFiles == 2

\* The orders in which os.walk can deliver a tree of at most MaxFiles files
\* out of U.
Listings(U) ==
    {l \in UNION {[1..n -> U] : n \in 0..MaxFiles} :
        \A i, j \in 1..Len(l) : i # j => l[i] # l[j]}

relpath(f) == <<f.dir, f.name>>

TextOrder  == <<"b", "o", "n", "j", "o", "u", "r", " ", "d", "o", "c", "t", "e", "u", "r", " ", "x", "y", "z">>
TextRepeat == <<"B", "o", "n", "j", "o", "u", "r", ",", " ", "b", "o", "n", "j", "o", "u", "r">>
TextVais   == <<"j", "e", " ", "v", "a", "i", "s", " ", "a_grave", " ", "l", "'", "h", "o_circ", "p", "i", "t", "a", "l">>
TextPunct  == <<"!">>
TextBlank  == <<" ">>

Texts == {TextOrder, TextRepeat, TextVais, TextPunct, TextBlank}

\* A request's JSON body: without a 'text' key, or with a text.
NoText == [has_text |-> FALSE, text |-> <<>>]
Bodies == {NoText} \cup {[has_text |-> TRUE, text |-> t] : t \in Texts}

\* The most calls of a build on one index (load_video_database by a program
\* that imports app, AnimationDatabase.load_from_filesystem).
MaxLoads == 2

\* The requests the server can be handling at once.
NumSlots == 2
Slots == 1..NumSlots

\* ------------------------------------------------------------------------
\* State.
\* ------------------------------------------------------------------------

VARIABLES
    prog,            \* the program that runs: "app" (python app.py), "app_import" (a
                     \* program that imports app and calls load_video_database),
                     \* "sign_processor", "animation_db", "avatar_manager",
                     \* "normalizers", "keys", "lemmatizer"
    rootExists,      \* os.path.exists of the asset root
    listing,         \* the files of the asset root, in os.walk's order
    pc,              \* the main program's position
    scanned,         \* how many entries of listing the build loop has handled
    builds,          \* how many times the build was entered
    stdout,          \* what the build printed
    video_database,  \* app.video_database
    video_count,     \* load_video_database's video_count
    req,             \* the request each slot (server thread) is handling
    sp_database,     \* the dict create_sign_database_from_files builds
    sp_result,       \* the SignSequence of the last process_text call
    animations,      \* AnimationDatabase.animations
    stats,           \* AnimationDatabase.stats
    anim_count,      \* load_from_filesystem's count
    load_result,     \* what the last load_from_filesystem call returned
    nx,              \* normalizers: the input string
    nw,              \* normalizers: a second input string
    nv,              \* normalizers: the variant applied
    ny,              \* normalizers: normalize(nx)
    nz,              \* normalizers: normalize(normalize(nx)), or normalize(nw)
    ntok,            \* normalizers: the tokens of ny
    rules,           \* lemmatizer: the LemmaRuleSet
    npc,             \* normalizers: what was applied so far
    mfile,           \* animation_db: the manifest file's content
    saved_db,        \* animation_db: self.animations when save_manifest wrote mfile
    seq_result,      \* animation_db: the last get_animation_sequence call and its result
    mcalls,          \* animation_db: the manifest calls made: their number, the last one's outcome
    cfile,           \* avatar_manager: the avatar config file's content
    avatars,         \* avatar_manager: self.avatars
    default_avatar_id,  \* avatar_manager: self.default_avatar_id
    acalls           \* avatar_manager: the calls made: their number, the last one's outcome

vars ==
    <<prog, rootExists, listing, pc, scanned, builds, stdout, video_database,
      video_count, req, sp_database, sp_result, animations, stats, anim_count,
      load_result,
      nx, nw, nv, ny, nz, ntok, rules, npc,
      mfile, saved_db, seq_result, mcalls,
      cfile, avatars, default_avatar_id, acalls>>

appVars == <<video_database, video_count, req>>
spVars == <<sp_database, sp_result>>
libVars == <<mfile, saved_db, seq_result, mcalls>>
avVars == <<cfile, avatars, default_avatar_id, acalls>>
animVars == <<animations, stats, anim_count, load_result, libVars, avVars>>
normVars == <<nx, nw, nv, ny, nz, ntok, rules, npc>>
fsVars == <<prog, rootExists, listing>>

NoResp == [status |-> 0]

\* No load_from_manifest or save_manifest call was made.
NoCalls == [n |-> 0, last |-> [op |-> "none", ret |-> 0, fresh |-> FALSE, printed |-> ""]]

\* No manifest file at manifest_path.
NoManifest == [kind |-> "missing"]

IdleReq ==
    [pc |-> "idle", mode |-> "none", body |-> NoText, words |-> <<>>, i |-> 0,
     items |-> <<>>, matched |-> <<>>, missing |-> <<>>, full_map |-> EmptyMap,
     resp |-> NoResp]

\* AnimationDatabase.__init__'s stats; a duration is counted in tenths of a
\* second.
InitStats ==
    [total_animations |-> 0, by_format |-> EmptyMap, by_category |-> EmptyMap,
     total_duration |-> 0]

\* The state every program starts from (module level and constructors).
InitCommon ==
    /\ pc = "start"
    /\ scanned = 0
    /\ builds = 0
    /\ stdout = <<>>
    /\ video_database = EmptyMap
    /\ video_count = 0
    /\ req = [r \in Slots |-> IdleReq]
    /\ sp_database = EmptyMap
    /\ sp_result = NoResp
    /\ animations = EmptyMap
    /\ stats = InitStats
    /\ anim_count = 0
    /\ load_result = -1
    /\ nv = "none"
    /\ ny = <<>>
    /\ nz = <<>>
    /\ ntok = <<>>
    /\ npc = "in"
    /\ saved_db = EmptyMap
    /\ seq_result = NoResp
    /\ mcalls = NoCalls
    /\ avatars = EmptyMap
    /\ default_avatar_id = "default_humanoid"
    /\ acalls = NoCalls

\* ------------------------------------------------------------------------
\* app.py: __main__ and load_video_database.
\* ------------------------------------------------------------------------

\* load_video_database walks a missing root without the check and raises
\* (mutant).
LoadVideoStartRaises ==
    /\ prog = "app"
    /\ pc = "start"
    /\ builds' = builds + 1
    /\ pc' = IF ~rootExists THEN "crashed" ELSE "walk"
    /\ UNCHANGED <<scanned, stdout, appVars, spVars, animVars, normVars, fsVars>>

\* load_video_database up to the loop: a missing root prints a warning and
\* returns.
LoadVideoStart ==
    /\ \/ prog = "app" /\ pc = "start"
       \/ prog = "app_import" /\ pc \in {"start", "loaded"} /\ builds < MaxLoads
    /\ builds' = builds + 1
    /\ IF ~rootExists
       THEN /\ stdout' = Append(stdout, [kind |-> "WARNING: Video directory not found"])
            /\ pc' = "loaded"
            /\ UNCHANGED <<scanned, video_count>>
       ELSE /\ stdout' = stdout
            /\ pc' = "walk"
            /\ scanned' = 0
            /\ video_count' = 0
    /\ UNCHANGED <<video_database, req, spVars, animVars, normVars, fsVars>>

\* The key load_video_database derives from a file name.
VideoKey(f) == normalize_text(splitext(f.name)[1])

\* filename.lower().endswith('.mp4')
IsMp4(f) == EndsWith(Lower(f.name), <<".", "m", "p", "4">>)

\* A file whose key is already in the database overwrites it (mutant).
VideoIsNewAlways(k, db) == TRUE

\* if normalized_word not in video_database
VideoIsNew(k, db) == k \notin DOMAIN db

\* load_video_database from its first line to its last, on the index db.
RECURSIVE VideoBuildFrom(_, _, _)
VideoBuildFrom(db, l, i) ==
    IF i > Len(l) THEN db
    ELSE VideoBuildFrom(IF IsMp4(l[i]) /\ VideoIsNew(VideoKey(l[i]), db)
                        THEN Put(db, VideoKey(l[i]), relpath(l[i]))
                        ELSE db,
                        l, i + 1)

\* One iteration of load_video_database's loop over the walked files.
LoadVideoStep ==
    /\ prog \in {"app", "app_import"}
    /\ pc = "walk"
    /\ scanned < Len(listing)
    /\ LET f == listing[scanned + 1]
       IN  IF IsMp4(f)
           THEN IF VideoIsNew(VideoKey(f), video_database)
                THEN /\ video_database' = Put(video_database, VideoKey(f), relpath(f))
                     /\ video_count' = video_count + 1
                     /\ stdout' = stdout
                ELSE /\ stdout' = Append(stdout, [kind |-> "Duplicate word found", key |-> VideoKey(f)])
                     /\ UNCHANGED <<video_database, video_count>>
           ELSE UNCHANGED <<video_database, video_count, stdout>>
    /\ scanned' = scanned + 1
    /\ UNCHANGED <<pc, builds, req, spVars, animVars, normVars, fsVars>>

\* The end of load_video_database: the summary lines.
LoadVideoEnd ==
    /\ prog \in {"app", "app_import"}
    /\ pc = "walk"
    /\ scanned = Len(listing)
    /\ stdout' = Append(stdout, [kind |-> "Loaded", count |-> video_count])
    /\ pc' = "loaded"
    /\ UNCHANGED <<scanned, builds, appVars, spVars, animVars, normVars, fsVars>>

\* The server is started while load_video_database still runs (mutant).
AppRunEarly ==
    /\ prog = "app"
    /\ pc \in {"walk", "loaded"}
    /\ pc' = "serving"
    /\ UNCHANGED <<scanned, builds, stdout, appVars, spVars, animVars, normVars, fsVars>>

\* __main__: app.run after load_video_database has returned.
AppRun ==
    /\ prog = "app"
    /\ pc = "loaded"
    /\ pc' = "serving"
    /\ UNCHANGED <<scanned, builds, stdout, appVars, spVars, animVars, normVars, fsVars>>

\* ------------------------------------------------------------------------
\* app.py: text_to_videos and the /translate handler.
\* ------------------------------------------------------------------------

\* The request has a body with a text that is not blank: what both handlers
\* check before they run the pipeline.
\* The validation does not strip the text before it tests it (mutant).
ValidatedUnstripped(body) == body.has_text /\ body.text # <<>>

Validated(body) == body.has_text /\ Strip(body.text) # <<>>

\* The two 400 answers of /translate.
TranslateRejected(body) ==
    [status |-> 400, success |-> FALSE,
     message |-> IF body.has_text THEN "Empty text provided" ELSE "No text provided",
     videos |-> <<>>, matched_words |-> <<>>, missing_words |-> <<>>]

\* /translate up to text_to_videos' loop: validation, normalize_text, split.
TranslateRecv(r, body) ==
    /\ prog = "app"
    /\ pc = "serving"
    /\ req[r].pc = "idle"
    /\ req' = [req EXCEPT ![r] =
                 IF Validated(body)
                 THEN [IdleReq EXCEPT !.pc = "loop", !.mode = "video", !.body = body,
                                      !.words = Split(normalize_text(Strip(body.text))),
                                      !.i = 1]
                 ELSE [IdleReq EXCEPT !.pc = "done", !.mode = "video", !.body = body,
                                      !.resp = TranslateRejected(body)]]
    /\ UNCHANGED <<pc, scanned, builds, stdout, video_database, video_count,
                   spVars, animVars, normVars, fsVars>>

\* text_to_videos keeps a word it has already seen out of its lists (mutant).
VideoLoopBodyDedup(q, word, db) ==
    IF \E i \in 1..Len(q.matched) : q.matched[i] = word THEN q
    ELSE IF \E i \in 1..Len(q.missing) : q.missing[i] = word THEN q
    ELSE IF word \in DOMAIN db
    THEN [q EXCEPT !.items = Append(q.items, db[word]),
                   !.matched = Append(q.matched, word)]
    ELSE [q EXCEPT !.missing = Append(q.missing, word)]

\* text_to_videos puts the path of a matched word in front of video_list
\* (mutant).
VideoLoopBodyPrepends(q, word, db) ==
    IF word \in DOMAIN db
    THEN [q EXCEPT !.items = <<db[word]>> \o q.items,
                   !.matched = Append(q.matched, word)]
    ELSE [q EXCEPT !.missing = Append(q.missing, word)]

\* The body of text_to_videos' loop for one word: q holds the locals
\* video_list (items), matched_words and missing_words.
VideoLoopBody(q, word, db) ==
    IF word \in DOMAIN db
    THEN [q EXCEPT !.items = Append(q.items, db[word]),
                   !.matched = Append(q.matched, word)]
    ELSE [q EXCEPT !.missing = Append(q.missing, word)]

\* text_to_videos remembers a word it did not find in video_database
\* (mutant).
TranslateLoopWrites(r) ==
    /\ req[r].pc = "loop"
    /\ req[r].mode = "video"
    /\ req[r].i <= Len(req[r].words)
    /\ req' = [req EXCEPT ![r] =
                 [VideoLoopBody(req[r], req[r].words[req[r].i], video_database)
                    EXCEPT !.i = req[r].i + 1]]
    /\ video_database' =
         IF req[r].words[req[r].i] \in DOMAIN video_database THEN video_database
         ELSE Put(video_database, req[r].words[req[r].i], <<>>)
    /\ UNCHANGED <<pc, scanned, builds, stdout, video_count,
                   spVars, animVars, normVars, fsVars>>

\* text_to_videos keeps its three lists at module level, shared by the
\* requests in flight (mutant).
TranslateLoopShared(r) ==
    /\ req[r].pc = "loop"
    /\ req[r].mode = "video"
    /\ req[r].i <= Len(req[r].words)
    /\ req' = [s \in Slots |->
                 IF s = r
                 THEN [VideoLoopBody(req[r], req[r].words[req[r].i], video_database)
                         EXCEPT !.i = req[r].i + 1]
                 ELSE IF req[s].pc = "loop" /\ req[s].mode = "video"
                 THEN VideoLoopBody(req[s], req[r].words[req[r].i], video_database)
                 ELSE req[s]]
    /\ UNCHANGED <<pc, scanned, builds, stdout, video_database, video_count,
                   spVars, animVars, normVars, fsVars>>

\* One iteration of text_to_videos' loop in request r.
TranslateLoop(r) ==
    /\ req[r].pc = "loop"
    /\ req[r].mode = "video"
    /\ req[r].i <= Len(req[r].words)
    /\ req' = [req EXCEPT ![r] =
                 [VideoLoopBody(req[r], req[r].words[req[r].i], video_database)
                    EXCEPT !.i = req[r].i + 1]]
    /\ UNCHANGED <<pc, scanned, builds, stdout, video_database, video_count,
                   spVars, animVars, normVars, fsVars>>

\* /translate reports success only when no word is missing (mutant).
TranslateResponseAllOrNothing(q) ==
    IF q.items = <<>> \/ q.missing # <<>>
    THEN [status |-> 200, success |-> FALSE,
          message |-> <<"Aucun signe trouve pour ce texte">>,
          videos |-> <<>>, matched_words |-> q.matched, missing_words |-> q.missing]
    ELSE [status |-> 200, success |-> TRUE,
          message |-> <<Len(q.items), "signe(s) trouve(s)">>,
          videos |-> q.items, matched_words |-> q.matched, missing_words |-> q.missing]

\* /translate answers a text without a match with empty lists (mutant).
TranslateResponseBareFailure(q) ==
    IF q.items = <<>>
    THEN [status |-> 200, success |-> FALSE,
          message |-> <<"Aucun signe trouve pour ce texte">>,
          videos |-> <<>>, matched_words |-> <<>>, missing_words |-> <<>>]
    ELSE [status |-> 200, success |-> TRUE,
          message |-> <<Len(q.items), "signe(s) trouve(s)">>,
          videos |-> q.items, matched_words |-> q.matched, missing_words |-> q.missing]

\* The JSON /translate answers with once text_to_videos has returned.
TranslateResponse(q) ==
    IF q.items = <<>>
    THEN [status |-> 200, success |-> FALSE,
          message |-> <<"Aucun signe trouve pour ce texte">>,
          videos |-> <<>>, matched_words |-> q.matched, missing_words |-> q.missing]
    ELSE [status |-> 200, success |-> TRUE,
          message |-> <<Len(q.items), "signe(s) trouve(s)">>,
          videos |-> q.items, matched_words |-> q.matched, missing_words |-> q.missing]

\* text_to_videos returns and /translate builds its answer.
TranslateRespond(r) ==
    /\ req[r].pc = "loop"
    /\ req[r].mode = "video"
    /\ req[r].i > Len(req[r].words)
    /\ req' = [req EXCEPT ![r] = [req[r] EXCEPT !.pc = "done", !.resp = TranslateResponse(req[r])]]
    /\ UNCHANGED <<pc, scanned, builds, stdout, video_database, video_count,
                   spVars, animVars, normVars, fsVars>>

\* The answer is sent and the thread is free for the next request.
Deliver(r) ==
    /\ req[r].pc = "done"
    /\ req' = [req EXCEPT ![r] = IdleReq]
    /\ UNCHANGED <<pc, scanned, builds, stdout, video_database, video_count,
                   spVars, animVars, normVars, fsVars>>

\* text_to_videos run on its own from start to end over db: the locals after
\* the loop has handled words[i..].
RECURSIVE VideoLoopFrom(_, _, _, _)
VideoLoopFrom(q, words, i, db) ==
    IF i > Len(words) THEN q
    ELSE VideoLoopFrom(VideoLoopBody(q, words[i], db), words, i + 1, db)

\* What /translate answers to body when nothing else runs.
TranslateAlone(body, db) ==
    IF Validated(body)
    THEN TranslateResponse(
             VideoLoopFrom(IdleReq, Split(normalize_text(Strip(body.text))), 1, db))
    ELSE TranslateRejected(body)

\* ------------------------------------------------------------------------
\* app.py: the /api/avatar/translate handler.
\* ------------------------------------------------------------------------

\* avatar_translate's animation_map, as (word, animation) items.
animation_map_items ==
    <<<<<<"b", "o", "n", "j", "o", "u", "r">>, "Wave">>,
      <<<<"s", "a", "l", "u", "t">>, "Wave">>,
      <<<<"c", "o", "u", "c", "o", "u">>, "Wave">>,
      <<<<"o", "u", "i">>, "ThumbsUp">>,
      <<<<"d", "a", "c", "c", "o", "r", "d">>, "ThumbsUp">>,
      <<<<"b", "i", "e", "n">>, "ThumbsUp">>,
      <<<<"m", "e", "r", "c", "i">>, "ThumbsUp">>,
      <<<<"b", "r", "a", "v", "o">>, "ThumbsUp">>,
      <<<<"n", "o", "n">>, "No">>,
      <<<<"p", "a", "s">>, "No">>,
      <<<<"j", "a", "m", "a", "i", "s">>, "No">>,
      <<<<"c", "o", "n", "t", "e", "n", "t">>, "Happy Idle">>,
      <<<<"h", "e", "u", "r", "e", "u", "x">>, "Happy Idle">>,
      <<<<"j", "o", "i", "e">>, "Happy Idle">>,
      <<<<"t", "r", "i", "s", "t", "e">>, "Sad Idle">>,
      <<<<"m", "a", "l", "h", "e", "u", "r", "e", "u", "x">>, "Sad Idle">>,
      <<<<"m", "a", "l">>, "Sad Idle">>,
      <<<<"d", "a", "n", "s", "e", "r">>, "Dance">>,
      <<<<"d", "a", "n", "s", "e">>, "Dance">>,
      <<<<"f", "e", "t", "e">>, "Dance">>,
      <<<<"c", "o", "u", "r", "i", "r">>, "Running">>,
      <<<<"v", "i", "t", "e">>, "Running">>,
      <<<<"u", "r", "g", "e", "n", "c", "e">>, "Running">>,
      <<<<"m", "a", "r", "c", "h", "e", "r">>, "Walking">>,
      <<<<"a", "l", "l", "e", "r">>, "Walking">>,
      <<<<"v", "e", "n", "i", "r">>, "Walking">>,
      <<<<"s", "a", "u", "t", "e", "r">>, "Jump">>,
      <<<<"s", "a", "u", "t">>, "Jump">>,
      <<<<"m", "o", "u", "r", "i", "r">>, "Death">>,
      <<<<"m", "o", "r", "t">>, "Death">>,
      <<<<"f", "r", "a", "p", "p", "e", "r">>, "Punch">>,
      <<<<"b", "a", "t", "t", "r", "e">>, "Punch">>>>

MedicalWave ==
    {<<"m", "e", "d", "e", "c", "i", "n">>,
     <<"d", "o", "c", "t", "e", "u", "r">>,
     <<"i", "n", "f", "i", "r", "m", "i", "e", "r">>,
     <<"i", "n", "f", "i", "r", "m", "i", "e", "r", "e">>,
     <<"s", "a", "g", "e", "-", "f", "e", "m", "m", "e">>}

MedicalWalking ==
    {<<"h", "o", "p", "i", "t", "a", "l">>,
     <<"c", "l", "i", "n", "i", "q", "u", "e">>,
     <<"p", "h", "a", "r", "m", "a", "c", "i", "e">>,
     <<"l", "a", "b", "o", "r", "a", "t", "o", "i", "r", "e">>}

MedicalSadIdle ==
    {<<"d", "o", "u", "l", "e", "u", "r">>,
     <<"m", "a", "l", "a", "d", "e">>,
     <<"f", "i", "e", "v", "r", "e">>,
     <<"f", "a", "t", "i", "g", "u", "e">>}

MedicalHappyIdle ==
    {<<"g", "u", "e", "r", "i", "s", "o", "n">>,
     <<"s", "a", "n", "t", "e">>,
     <<"g", "u", "e", "r", "i">>}


animation_map ==
    [w \in {it[1] : it \in {animation_map_items[i] : i \in 1..Len(animation_map_items)}} |->
        (CHOOSE it \in {animation_map_items[i] : i \in 1..Len(animation_map_items)} : it[1] = w)[2]]

\* avatar_translate's medical_animation_map over the keys of db.
medical_animation_map(db) ==
    [w \in DOMAIN db |->
        IF w \in MedicalWave THEN "Wave"
        ELSE IF w \in MedicalWalking THEN "Walking"
        ELSE IF w \in MedicalSadIdle THEN "Sad Idle"
        ELSE IF w \in MedicalHappyIdle THEN "Happy Idle"
        ELSE "Idle"]

\* full_map is built from the video database alone (mutant).
FullMapIndexOnly(db) == medical_animation_map(db)

\* {**medical_animation_map, **animation_map}
FullMap(db) ==
    [w \in (DOMAIN db) \cup (DOMAIN animation_map) |->
        IF w \in DOMAIN animation_map THEN animation_map[w]
        ELSE medical_animation_map(db)[w]]

\* The two 400 answers of /api/avatar/translate.
AvatarRejected(body) ==
    [status |-> 400, success |-> FALSE,
     message |-> IF body.has_text THEN "Empty text" ELSE "No text provided",
     animations |-> <<>>]

\* /api/avatar/translate up to its loop: validation, normalize_text, split
\* and the full_map built from the keys of video_database.
AvatarRecv(r, body) ==
    /\ prog = "app"
    /\ pc = "serving"
    /\ req[r].pc = "idle"
    /\ req' = [req EXCEPT ![r] =
                 IF Validated(body)
                 THEN [IdleReq EXCEPT !.pc = "loop", !.mode = "avatar", !.body = body,
                                      !.words = Split(normalize_text(Strip(body.text))),
                                      !.i = 1, !.full_map = FullMap(video_database)]
                 ELSE [IdleReq EXCEPT !.pc = "done", !.mode = "avatar", !.body = body,
                                      !.resp = AvatarRejected(body)]]
    /\ UNCHANGED <<pc, scanned, builds, stdout, video_database, video_count,
                   spVars, animVars, normVars, fsVars>>

AnimationItem(word, name) ==
    [sign_id |-> word, animation_name |-> name, word |-> word, transition_in |-> "0.4"]

\* avatar_translate looks a word up in animation_map alone (mutant).
AvatarLoopBodySymbolicOnly(q, word, db) ==
    IF word \in DOMAIN animation_map
    THEN [q EXCEPT !.items = Append(q.items, AnimationItem(word, animation_map[word])),
                   !.matched = Append(q.matched, word)]
    ELSE [q EXCEPT !.missing = Append(q.missing, word)]

\* The body of avatar_translate's loop for one word: q holds the locals
\* animations (items), matched, missing and full_map.
AvatarLoopBody(q, word, db) ==
    IF word \in DOMAIN q.full_map
    THEN [q EXCEPT !.items = Append(q.items, AnimationItem(word, q.full_map[word])),
                   !.matched = Append(q.matched, word)]
    ELSE IF word \in DOMAIN db
    THEN [q EXCEPT !.items = Append(q.items, AnimationItem(word, "Idle")),
                   !.matched = Append(q.matched, word)]
    ELSE [q EXCEPT !.missing = Append(q.missing, word)]

\* One iteration of avatar_translate's loop in request r.
AvatarLoop(r) ==
    /\ req[r].pc = "loop"
    /\ req[r].mode = "avatar"
    /\ req[r].i <= Len(req[r].words)
    /\ req' = [req EXCEPT ![r] =
                 [AvatarLoopBody(req[r], req[r].words[req[r].i], video_database)
                    EXCEPT !.i = req[r].i + 1]]
    /\ UNCHANGED <<pc, scanned, builds, stdout, video_database, video_count,
                   spVars, animVars, normVars, fsVars>>

\* avatar_translate's loop run on its own from start to end over db.
RECURSIVE AvatarLoopFrom(_, _, _, _)
AvatarLoopFrom(q, words, i, db) ==
    IF i > Len(words) THEN q
    ELSE AvatarLoopFrom(AvatarLoopBody(q, words[i], db), words, i + 1, db)

\* The JSON /api/avatar/translate answers with after its loop.
AvatarResponse(q) ==
    [status |-> 200, success |-> Len(q.items) > 0,
     message |-> IF q.items # <<>> THEN <<Len(q.items), "animation(s) trouvee(s)">>
                 ELSE <<"Aucune animation trouvee">>,
     animations |-> q.items, matched_words |-> q.matched, missing_words |-> q.missing]

\* /api/avatar/translate builds its answer.
AvatarRespond(r) ==
    /\ req[r].pc = "loop"
    /\ req[r].mode = "avatar"
    /\ req[r].i > Len(req[r].words)
    /\ req' = [req EXCEPT ![r] = [req[r] EXCEPT !.pc = "done", !.resp = AvatarResponse(req[r])]]
    /\ UNCHANGED <<pc, scanned, builds, stdout, video_database, video_count,
                   spVars, animVars, normVars, fsVars>>

\* What /api/avatar/translate answers to body when nothing else runs.
AvatarAlone(body, db) ==
    IF Validated(body)
    THEN AvatarResponse(
             AvatarLoopFrom([IdleReq EXCEPT !.full_map = FullMap(db)],
                            Split(normalize_text(Strip(body.text))), 1, db))
    ELSE AvatarRejected(body)

\* ------------------------------------------------------------------------
\* sign_processor.py: create_sign_database_from_files and
\* SignProcessor.process_text.
\* ------------------------------------------------------------------------

\* create_sign_database_from_files is entered: database = {}.
SignBuildStart ==
    /\ prog = "sign_processor"
    /\ pc = "start"
    /\ pc' = "walk"
    /\ builds' = builds + 1
    /\ UNCHANGED <<scanned, stdout, appVars, spVars, animVars, normVars, fsVars>>

\* The key create_sign_database_from_files derives from a file name.
SignKey(f) == SP_normalize_text(splitext(f.name)[1])

\* if normalized and normalized not in database
SignIsNew(k, db) == k # <<>> /\ k \notin DOMAIN db

\* One iteration of create_sign_database_from_files' loop over file_list.
SignBuildStep ==
    /\ prog = "sign_processor"
    /\ pc = "walk"
    /\ scanned < Len(listing)
    /\ LET normalized == SignKey(listing[scanned + 1])
       IN  sp_database' = IF SignIsNew(normalized, sp_database)
                          THEN Put(sp_database, normalized, normalized)
                          ELSE sp_database
    /\ scanned' = scanned + 1
    /\ UNCHANGED <<pc, builds, stdout, appVars, sp_result, animVars, normVars, fsVars>>

\* create_sign_database_from_files returns and SignProcessor(database) is made.
SignBuildEnd ==
    /\ prog = "sign_processor"
    /\ pc = "walk"
    /\ scanned = Len(listing)
    /\ pc' = "ready"
    /\ UNCHANGED <<scanned, builds, stdout, appVars, spVars, animVars, normVars, fsVars>>

\* SignProcessor._map_word_to_sign: <<SignMatch>>, or <<>> for None.
map_word_to_sign(word, db) ==
    IF word \in DOMAIN db
    THEN <<[word |-> word, sign_id |-> db[word], confidence |-> "1.0", metadata |-> EmptyMap]>>
    ELSE <<>>

\* SignProcessor.tokenize
tokenize(text) == Split(text)

\* process_text's loop from words[i] on: q holds matched_signs and
\* missing_words.
RECURSIVE MapWordsFrom(_, _, _, _)
MapWordsFrom(q, words, i, db) ==
    IF i > Len(words) THEN q
    ELSE MapWordsFrom(
             IF map_word_to_sign(words[i], db) # <<>>
             THEN [q EXCEPT !.matched_signs = q.matched_signs \o map_word_to_sign(words[i], db)]
             ELSE [q EXCEPT !.missing_words = Append(q.missing_words, words[i])],
             words, i + 1, db)

\* SignProcessor.process_text
process_text(text, db) ==
    MapWordsFrom([matched_signs |-> <<>>, missing_words |-> <<>>,
                  original_text |-> text, normalized_text |-> SP_normalize_text(text)],
                 tokenize(SP_normalize_text(text)), 1, db)

\* A call of processor.process_text(text).
ProcessText(text) ==
    /\ prog = "sign_processor"
    /\ pc = "ready"
    /\ sp_result' = process_text(text, sp_database)
    /\ UNCHANGED <<pc, scanned, builds, stdout, appVars, sp_database, animVars, normVars, fsVars>>

\* ------------------------------------------------------------------------
\* animation_db.py: AnimationDatabase.load_from_filesystem.
\* ------------------------------------------------------------------------

\* load_from_filesystem up to its loop: a missing directory prints a warning
\* and returns 0.
AnimLoadStart ==
    /\ prog = "animation_db"
    /\ pc \in {"start", "ready"}
    /\ builds < MaxLoads
    /\ builds' = builds + 1
    /\ IF ~rootExists
       THEN /\ stdout' = Append(stdout, [kind |-> "Warning: Animation directory not found"])
            /\ load_result' = 0
            /\ pc' = "ready"
            /\ UNCHANGED <<scanned, anim_count>>
       ELSE /\ anim_count' = 0
            /\ scanned' = 0
            /\ load_result' = -1
            /\ pc' = "walk"
            /\ stdout' = stdout
    /\ UNCHANGED <<appVars, spVars, animations, stats, libVars, avVars, normVars, fsVars>>

\* load_from_filesystem's supported_formats.
supported_formats == {<<".", "f", "b", "x">>, <<".", "b", "v", "h">>, <<".", "g", "l", "t", "f">>}

\* ext = os.path.splitext(filename)[1].lower()
AnimExt(f) == Lower(splitext(f.name)[2])

\* The sign id load_from_filesystem derives from a file name.
AnimKey(f) == normalize_sign_id(splitext(f.name)[1])

\* The AnimationMetadata load_from_filesystem makes for a file; a duration is
\* in tenths of a second.
AnimMetadata(f) ==
    [sign_id |-> AnimKey(f), file_path |-> relpath(f), format |-> Tail(AnimExt(f)),
     duration |-> 25, fps |-> 30, skeleton |-> "humanoid_mixamo",
     tags |-> IF f.dir # "" THEN <<f.dir>> ELSE <<>>,
     transition_in |-> "0.3", transition_out |-> "0.3", bone_count |-> "None",
     hand_shape |-> "None", movement_type |-> "None", location |-> "None"]

\* d[k] = d.get(k, 0) + 1
Incr(d, k) == Put(d, k, (IF k \in DOMAIN d THEN d[k] ELSE 0) + 1)

RECURSIVE IncrAll(_, _)
IncrAll(d, ks) == IF ks = <<>> THEN d ELSE IncrAll(Incr(d, Head(ks)), Tail(ks))

\* AnimationDatabase._update_stats
update_stats(st, metadata) ==
    [total_animations |-> st.total_animations + 1,
     by_format |-> Incr(st.by_format, metadata.format),
     by_category |-> IncrAll(st.by_category, metadata.tags),
     total_duration |-> st.total_duration + metadata.duration]

\* A file whose sign id is already in the database overwrites it (mutant).
AnimIsNewAlways(k, db) == TRUE

\* if sign_id not in self.animations
AnimIsNew(k, db) == k \notin DOMAIN db

\* load_from_filesystem's loop from its first file to its last, on the
\* animations db.
RECURSIVE AnimBuildFrom(_, _, _)
AnimBuildFrom(db, l, i) ==
    IF i > Len(l) THEN db
    ELSE AnimBuildFrom(IF AnimExt(l[i]) \in supported_formats /\ AnimIsNew(AnimKey(l[i]), db)
                       THEN Put(db, AnimKey(l[i]), AnimMetadata(l[i]))
                       ELSE db,
                       l, i + 1)

\* One iteration of load_from_filesystem's loop over the walked files.
AnimLoadStep ==
    /\ prog = "animation_db"
    /\ pc = "walk"
    /\ scanned < Len(listing)
    /\ LET f == listing[scanned + 1]
       IN  IF AnimExt(f) \in supported_formats /\ AnimIsNew(AnimKey(f), animations)
           THEN /\ animations' = Put(animations, AnimKey(f), AnimMetadata(f))
                /\ anim_count' = anim_count + 1
                /\ stats' = update_stats(stats, AnimMetadata(f))
           ELSE UNCHANGED <<animations, anim_count, stats>>
    /\ scanned' = scanned + 1
    /\ UNCHANGED <<pc, builds, stdout, appVars, spVars, load_result, libVars, avVars, normVars,
                   fsVars>>

\* The end of load_from_filesystem: the summary line and return count.
AnimLoadEnd ==
    /\ prog = "animation_db"
    /\ pc = "walk"
    /\ scanned = Len(listing)
    /\ stdout' = Append(stdout, [kind |-> "Loaded", count |-> anim_count])
    /\ load_result' = anim_count
    /\ pc' = "ready"
    /\ UNCHANGED <<scanned, builds, appVars, spVars, animations, stats, anim_count,
                   libVars, avVars, normVars, fsVars>>

\* ------------------------------------------------------------------------
\* backend/animation_db.py: get_animation_sequence, load_from_manifest,
\* save_manifest.
\* ------------------------------------------------------------------------

WordMedecin == <<"m", "e", "d", "e", "c", "i", "n">>
WordCoeur == <<"c", "o", "e", "u", "r">>
WordGenou == <<"g", "e", "n", "o", "u">>

\* The sign ids a caller asks get_animation_sequence for.
SignIds == {WordMedecin, WordGenou}

\* The most sign ids of one get_animation_sequence call.
MaxIds == 2

SignIdLists == UNION {[1..n -> SignIds] : n \in 0..MaxIds}

\* get_animation_sequence's base_url default.
base_url == "/assets/animations"

\* The AnimationSequenceItem get_animation_sequence makes of a sign's metadata.
SequenceItem(sign_id, metadata) ==
    [sign_id |-> sign_id, animation_url |-> <<base_url, metadata.file_path>>,
     duration |-> metadata.duration, transition_in |-> metadata.transition_in,
     transition_out |-> metadata.transition_out, format |-> metadata.format,
     metadata |-> [hand_shape |-> metadata.hand_shape, movement |-> metadata.movement_type,
                   location |-> metadata.location, tags |-> metadata.tags]]

\* get_animation_sequence's loop body when a found sign is also reported
\* missing (mutant).
SequenceLoopBodyAlsoMissing(q, sign_id, db) ==
    IF sign_id \in DOMAIN db
    THEN [sequence |-> Append(q.sequence, SequenceItem(sign_id, db[sign_id])),
          missing |-> Append(q.missing, sign_id)]
    ELSE [q EXCEPT !.missing = Append(q.missing, sign_id)]

\* The body of get_animation_sequence's loop: metadata = self.get_animation(sign_id),
\* then the item is appended, or the sign id is to missing.
SequenceLoopBody(q, sign_id, db) ==
    IF sign_id \in DOMAIN db
    THEN [q EXCEPT !.sequence = Append(q.sequence, SequenceItem(sign_id, db[sign_id]))]
    ELSE [q EXCEPT !.missing = Append(q.missing, sign_id)]

RECURSIVE SequenceLoopFrom(_, _, _, _)
SequenceLoopFrom(q, sign_ids, i, db) ==
    IF i > Len(sign_ids) THEN q
    ELSE SequenceLoopFrom(SequenceLoopBody(q, sign_ids[i], db), sign_ids, i + 1, db)

\* AnimationDatabase.get_animation_sequence: (sequence, missing).
get_animation_sequence(sign_ids, db) ==
    SequenceLoopFrom([sequence |-> <<>>, missing |-> <<>>], sign_ids, 1, db)

\* A call of get_animation_sequence between two loads.
GetAnimationSequence(sign_ids) ==
    /\ prog = "animation_db"
    /\ pc \in {"start", "ready"}
    /\ seq_result' = [status |-> 1, sign_ids |-> sign_ids,
                      sequence |-> get_animation_sequence(sign_ids, animations).sequence,
                      missing |-> get_animation_sequence(sign_ids, animations).missing]
    /\ UNCHANGED <<pc, scanned, builds, stdout, appVars, spVars, animations, stats,
                   anim_count, load_result, mfile, saved_db, mcalls, avVars, normVars, fsVars>>

\* d.get(k, default)
Get(d, k, default) == IF k \in DOMAIN d THEN d[k] ELSE default

\* The empty file path ''.
EmptyPath == <<"", <<>>>>

\* A manifest file that is not JSON: json.load raises.
GarbageManifest == [kind |-> "garbage"]

\* A manifest with a skeleton_standard and two entries: one that sets every
\* key, and one that sets none and overrides no default.
ManifestFull ==
    [kind |-> "json", written |-> FALSE,
     top |-> [version |-> "1.0", skeleton_standard |-> "humanoid_custom"],
     animations |->
        << [sign_id |-> WordMedecin, object |-> TRUE,
            data |-> [file |-> <<"manifest", <<"m", "e", "d", "e", "c", "i", "n", ".", "g", "l", "b">>>>,
                      format |-> <<"g", "l", "b">>, duration |-> 40, fps |-> 60,
                      skeleton |-> "humanoid_vrm", tags |-> <<"medical", "professions">>,
                      transitions |-> [in |-> "0.5", out |-> "0.2"], bone_count |-> "65",
                      metadata |-> [hand_shape |-> "flat", movement |-> "tap",
                                    location |-> "chest"]]],
           [sign_id |-> WordGenou, object |-> TRUE, data |-> EmptyMap] >>]

\* A manifest whose first entry is an object and whose second entry is a
\* string: anim_data.get raises AttributeError on the second.
ManifestBadTail ==
    [kind |-> "json", written |-> FALSE,
     top |-> EmptyMap,
     animations |->
        << [sign_id |-> WordCoeur, object |-> TRUE,
            data |-> [file |-> <<"anatomy", <<"c", "o", "e", "u", "r", ".", "f", "b", "x">>>>]],
           [sign_id |-> WordGenou, object |-> FALSE, data |-> EmptyMap] >>]

\* The files the animation tree of a database with a manifest can hold.
LibraryFiles == {AnimMedecin, AnimCoeur}

\* The manifest files a database can be given.
Manifests == {NoManifest, GarbageManifest, ManifestFull, ManifestBadTail}

\* The most load_from_manifest and save_manifest calls of a run.
MaxManifestCalls == 3

\* The AnimationMetadata load_from_manifest makes of a manifest entry.
ManifestMetadata(sign_id, anim_data, top) ==
    [sign_id |-> sign_id,
     file_path |-> Get(anim_data, "file", EmptyPath),
     format |-> Get(anim_data, "format", <<"f", "b", "x">>),
     duration |-> Get(anim_data, "duration", 25),
     fps |-> Get(anim_data, "fps", 30),
     skeleton |-> Get(anim_data, "skeleton", Get(top, "skeleton_standard", "humanoid_mixamo")),
     tags |-> Get(anim_data, "tags", <<>>),
     transition_in |-> Get(Get(anim_data, "transitions", EmptyMap), "in", "0.3"),
     transition_out |-> Get(Get(anim_data, "transitions", EmptyMap), "out", "0.3"),
     bone_count |-> Get(anim_data, "bone_count", "None"),
     hand_shape |-> Get(Get(anim_data, "metadata", EmptyMap), "hand_shape", "None"),
     movement_type |-> Get(Get(anim_data, "metadata", EmptyMap), "movement", "None"),
     location |-> Get(Get(anim_data, "metadata", EmptyMap), "location", "None")]

\* load_from_manifest's stores when an entry whose sign id is already in the
\* database is skipped (mutant).
ManifestStoreIfNew(st, metadata) ==
    IF metadata.sign_id \in DOMAIN st.animations
    THEN st
    ELSE [st EXCEPT !.animations = Put(st.animations, metadata.sign_id, metadata),
                    !.count = st.count + 1,
                    !.stats = update_stats(st.stats, metadata)]

\* self.animations[sign_id] = metadata; count += 1; self._update_stats(metadata)
ManifestStore(st, metadata) ==
    [st EXCEPT !.animations = Put(st.animations, metadata.sign_id, metadata),
               !.count = st.count + 1,
               !.stats = update_stats(st.stats, metadata)]

\* load_from_manifest's loop from entry i on: an entry that is not an object
\* raises, and the loop ends there with what it stored.
RECURSIVE ManifestLoadFrom(_, _, _, _)
ManifestLoadFrom(st, entries, i, top) ==
    IF i > Len(entries) THEN st
    ELSE IF ~entries[i].object THEN [st EXCEPT !.raised = TRUE]
    ELSE ManifestLoadFrom(ManifestStore(st, ManifestMetadata(entries[i].sign_id,
                                                             entries[i].data, top)),
                          entries, i + 1, top)

\* AnimationDatabase.load_from_manifest: a missing file warns and returns 0, an
\* exception prints the error and returns 0, else the count is returned. The
\* line the call prints is kept with the call's outcome in mcalls.
LoadFromManifest ==
    /\ prog = "animation_db"
    /\ pc \in {"start", "ready"}
    /\ mcalls.n < MaxManifestCalls
    /\ LET st == IF mfile.kind = "json"
                 THEN ManifestLoadFrom([animations |-> animations, stats |-> stats,
                                        count |-> 0, raised |-> FALSE],
                                       mfile.animations, 1, mfile.top)
                 ELSE [animations |-> animations, stats |-> stats, count |-> 0,
                       raised |-> mfile.kind = "garbage"]
           ret == IF mfile.kind = "missing" \/ st.raised THEN 0 ELSE st.count
       IN  /\ animations' = st.animations
           /\ stats' = st.stats
           /\ load_result' = ret
           /\ mcalls' = [n |-> mcalls.n + 1,
                          last |-> [op |-> "load", ret |-> ret,
                                    fresh |-> animations = EmptyMap /\ stats = InitStats,
                                    printed |-> CASE mfile.kind = "missing" -> "Warning: Manifest file not found"
                                                  [] st.raised -> "Error loading manifest"
                                                  [] OTHER -> "Loaded from manifest"]]
    /\ UNCHANGED <<pc, scanned, builds, stdout, appVars, spVars, anim_count, mfile,
                   saved_db, seq_result, avVars, normVars, fsVars>>

\* The order save_manifest writes the entries in.
RECURSIVE KeyOrder(_)
KeyOrder(ks) ==
    IF ks = {} THEN <<>>
    ELSE LET k == CHOOSE x \in ks : TRUE IN <<k>> \o KeyOrder(ks \ {k})

\* save_manifest's entry when the movement is written under the dataclass
\* field's name (mutant).
ManifestEntryFieldNames(metadata) ==
    [file |-> metadata.file_path, format |-> metadata.format,
     duration |-> metadata.duration, fps |-> metadata.fps,
     skeleton |-> metadata.skeleton, tags |-> metadata.tags,
     transitions |-> [in |-> metadata.transition_in, out |-> metadata.transition_out],
     bone_count |-> metadata.bone_count,
     metadata |-> [hand_shape |-> metadata.hand_shape,
                   movement_type |-> metadata.movement_type,
                   location |-> metadata.location]]

\* The entry save_manifest writes for a sign's metadata.
ManifestEntry(metadata) ==
    [file |-> metadata.file_path, format |-> metadata.format,
     duration |-> metadata.duration, fps |-> metadata.fps,
     skeleton |-> metadata.skeleton, tags |-> metadata.tags,
     transitions |-> [in |-> metadata.transition_in, out |-> metadata.transition_out],
     bone_count |-> metadata.bone_count,
     metadata |-> [hand_shape |-> metadata.hand_shape,
                   movement |-> metadata.movement_type,
                   location |-> metadata.location]]

\* The manifest save_manifest writes for the animations db.
WrittenManifest(db) ==
    [kind |-> "json", written |-> TRUE,
     top |-> [version |-> "1.0", skeleton_standard |-> "humanoid_mixamo",
              total_animations |-> Cardinality(DOMAIN db)],
     animations |-> [i \in 1..Cardinality(DOMAIN db) |->
                        [sign_id |-> KeyOrder(DOMAIN db)[i], object |-> TRUE,
                         data |-> ManifestEntry(db[KeyOrder(DOMAIN db)[i]])]]]

\* AnimationDatabase.save_manifest: the manifest is written and True returned,
\* or writing raises, the error is printed and False returned.
SaveManifest(ok) ==
    /\ prog = "animation_db"
    /\ pc \in {"start", "ready"}
    /\ mcalls.n < MaxManifestCalls
    /\ IF ok
       THEN /\ mfile' = WrittenManifest(animations)
            /\ saved_db' = animations
       ELSE UNCHANGED <<mfile, saved_db>>
    /\ mcalls' = [n |-> mcalls.n + 1,
                   last |-> [op |-> "save", ret |-> IF ok THEN 1 ELSE 0, fresh |-> FALSE,
                             printed |-> IF ok THEN "Manifest saved"
                                         ELSE "Error saving manifest"]]
    /\ UNCHANGED <<pc, scanned, builds, stdout, appVars, spVars, animations, stats,
                   anim_count, load_result, seq_result, avVars, normVars, fsVars>>

\* AnimationDatabase(): a new, empty database over the same paths.
NewDatabase ==
    /\ prog = "animation_db"
    /\ pc \in {"start", "ready"}
    /\ animations # EmptyMap
    /\ animations' = EmptyMap
    /\ stats' = InitStats
    /\ anim_count' = 0
    /\ load_result' = -1
    /\ seq_result' = NoResp
    /\ pc' = "start"
    /\ UNCHANGED <<scanned, builds, stdout, appVars, spVars, mfile, saved_db, mcalls,
                   avVars, normVars, fsVars>>

\* ------------------------------------------------------------------------
\* backend/avatar_manager.py: AvatarManager.
\* ------------------------------------------------------------------------

\* The avatar ids of the model; the first is __init__'s default_avatar_id.
AvatarIds == {"default_humanoid", "nurse", "doctor"}

\* The most AvatarManager calls of a run.
MaxAvatarCalls == 3

\* The AvatarModel a caller registers under an id.
SampleAvatar(id) ==
    [id |-> id, name |-> "Sample Avatar", model_file |-> "avatars/sample/model.gltf",
     skeleton |-> "humanoid_mixamo", scale |-> "1.0", textures |-> EmptyMap,
     bone_mapping |-> EmptyMap, thumbnail |-> "None", description |-> "",
     idle_animation |-> "common/idle.fbx", transition_animation |-> "None",
     quality_preset |-> "medium", customizable |-> FALSE,
     customization_options |-> EmptyMap]

\* The AvatarModel load_avatars_from_config makes of a config entry.
ConfigAvatar(avatar_id, avatar_data) ==
    [id |-> avatar_id,
     name |-> Get(avatar_data, "name", avatar_id),
     model_file |-> Get(avatar_data, "model", ""),
     skeleton |-> Get(avatar_data, "skeleton", "humanoid_mixamo"),
     scale |-> Get(avatar_data, "scale", "1.0"),
     textures |-> Get(avatar_data, "materials", EmptyMap),
     bone_mapping |-> Get(avatar_data, "bones", EmptyMap),
     thumbnail |-> Get(avatar_data, "thumbnail", "None"),
     description |-> Get(avatar_data, "description", ""),
     idle_animation |-> Get(Get(avatar_data, "default_animations", EmptyMap), "idle", "None"),
     transition_animation |->
         Get(Get(avatar_data, "default_animations", EmptyMap), "transition", "None"),
     quality_preset |-> Get(avatar_data, "quality_preset", "medium"),
     customizable |-> Get(avatar_data, "customizable", FALSE),
     customization_options |-> Get(avatar_data, "customization", EmptyMap)]

\* A config with one avatar and no default_avatar.
ConfigNurse ==
    [kind |-> "json", top |-> EmptyMap,
     avatars |-> << [avatar_id |-> "nurse", object |-> TRUE,
                     data |-> [name |-> "Nurse", model |-> "avatars/nurse/model.gltf"]] >>]

\* A config with two avatars whose default_avatar is one of them.
ConfigTwo ==
    [kind |-> "json", top |-> [default_avatar |-> "nurse"],
     avatars |-> << [avatar_id |-> "default_humanoid", object |-> TRUE, data |-> EmptyMap],
                    [avatar_id |-> "nurse", object |-> TRUE,
                     data |-> [name |-> "Nurse", quality_preset |-> "high"]] >>]

\* A config whose default_avatar is not among its avatars.
ConfigDefaultUnknown ==
    [kind |-> "json", top |-> [default_avatar |-> "doctor"],
     avatars |-> << [avatar_id |-> "nurse", object |-> TRUE, data |-> EmptyMap] >>]

\* A config whose second entry is a string: avatar_data.get raises.
ConfigBadTail ==
    [kind |-> "json", top |-> [default_avatar |-> "nurse"],
     avatars |-> << [avatar_id |-> "nurse", object |-> TRUE, data |-> EmptyMap],
                    [avatar_id |-> "doctor", object |-> FALSE, data |-> EmptyMap] >>]

\* The config files a manager can be given.
Configs == {NoManifest, GarbageManifest, ConfigNurse, ConfigTwo, ConfigDefaultUnknown,
            ConfigBadTail}

\* load_avatars_from_config's loop from entry i on: an entry that is not an
\* object raises, and the loop ends there with what it stored.
RECURSIVE ConfigLoadFrom(_, _, _)
ConfigLoadFrom(st, entries, i) ==
    IF i > Len(entries) THEN st
    ELSE IF ~entries[i].object THEN [st EXCEPT !.raised = TRUE]
    ELSE ConfigLoadFrom([st EXCEPT !.avatars = Put(st.avatars, entries[i].avatar_id,
                                                    ConfigAvatar(entries[i].avatar_id,
                                                                 entries[i].data)),
                                   !.count = st.count + 1],
                        entries, i + 1)

\* AvatarManager.load_avatars_from_config: a missing file warns and returns 0;
\* else the entries are stored, then default_avatar_id is set if the config
\* names one; an exception prints the error and returns 0.
LoadAvatarsFromConfig ==
    /\ prog = "avatar_manager"
    /\ acalls.n < MaxAvatarCalls
    /\ LET st == IF cfile.kind = "json"
                 THEN ConfigLoadFrom([avatars |-> avatars, count |-> 0, raised |-> FALSE],
                                     cfile.avatars, 1)
                 ELSE [avatars |-> avatars, count |-> 0, raised |-> cfile.kind = "garbage"]
           ret == IF cfile.kind = "missing" \/ st.raised THEN 0 ELSE st.count
       IN  /\ avatars' = st.avatars
           /\ default_avatar_id' =
                 IF cfile.kind = "json" /\ ~st.raised /\ "default_avatar" \in DOMAIN cfile.top
                 THEN cfile.top.default_avatar
                 ELSE default_avatar_id
           /\ acalls' = [n |-> acalls.n + 1,
                         last |-> [op |-> "load", ret |-> ret,
                                   printed |-> CASE cfile.kind = "missing" -> "Warning: Avatar config file not found"
                                                 [] st.raised -> "Error loading avatar config"
                                                 [] OTHER -> "Loaded avatars from config"]]
    /\ UNCHANGED <<pc, scanned, builds, stdout, appVars, spVars, animations, stats,
                   anim_count, load_result, libVars, cfile, normVars, fsVars>>

\* AvatarManager.register_avatar
RegisterAvatar(id) ==
    /\ prog = "avatar_manager"
    /\ acalls.n < MaxAvatarCalls
    /\ avatars' = Put(avatars, id, SampleAvatar(id))
    /\ acalls' = [n |-> acalls.n + 1,
                  last |-> [op |-> "register", ret |-> 0,
                            printed |-> "Registered avatar"]]
    /\ UNCHANGED <<pc, scanned, builds, stdout, appVars, spVars, animations, stats,
                   anim_count, load_result, libVars, cfile, default_avatar_id, normVars,
                   fsVars>>

\* if avatar_id in self.avatars
IsRegistered(avatar_id, registry) == avatar_id \in DOMAIN registry

\* AvatarManager.set_default_avatar
SetDefaultAvatar(id) ==
    /\ prog = "avatar_manager"
    /\ acalls.n < MaxAvatarCalls
    /\ default_avatar_id' = IF IsRegistered(id, avatars) THEN id ELSE default_avatar_id
    /\ acalls' = [n |-> acalls.n + 1,
                  last |-> [op |-> "set_default", ret |-> 0, arg |-> id,
                            printed |-> IF IsRegistered(id, avatars)
                                        THEN "Default avatar set to"
                                        ELSE "Error: Avatar not found"]]
    /\ UNCHANGED <<pc, scanned, builds, stdout, appVars, spVars, animations, stats,
                   anim_count, load_result, libVars, cfile, avatars, normVars, fsVars>>

\* AvatarManager.get_avatar: <<AvatarModel>>, or <<>> for None.
get_avatar(avatar_id, registry) ==
    IF avatar_id \in DOMAIN registry THEN <<registry[avatar_id]>> ELSE <<>>

\* A call of get_avatar() with no argument: avatar_id = self.default_avatar_id.
GetAvatar ==
    /\ prog = "avatar_manager"
    /\ acalls.n < MaxAvatarCalls
    /\ acalls' = [n |-> acalls.n + 1,
                  last |-> [op |-> "get", ret |-> 0, printed |-> "",
                            avatar |-> get_avatar(default_avatar_id, avatars)]]
    /\ UNCHANGED <<pc, scanned, builds, stdout, appVars, spVars, animations, stats,
                   anim_count, load_result, libVars, cfile, avatars, default_avatar_id,
                   normVars, fsVars>>

\* ------------------------------------------------------------------------
\* The normalizers applied to a string, and to their own output.
\* ------------------------------------------------------------------------

\* The characters the strings given to the normalizers are made of.
NormChars == {"a", "A", "e_acute", "acute", "mc216", "mc226", ".", "_", " ", "TAB"}

\* The longest string given to the normalizers.
MaxLen == 3

Strings == UNION {[1..n -> NormChars] : n \in 0..MaxLen}

Variants == {"app", "sign_processor", "animation_db"}

Normalize(v, s) ==
    CASE v = "app" -> normalize_text(s)
      [] v = "sign_processor" -> SP_normalize_text(s)
      [] v = "animation_db" -> normalize_sign_id(s)

\* normalize(x)
NormOnce(v) ==
    /\ prog = "normalizers"
    /\ npc = "in"
    /\ nv' = v
    /\ ny' = Normalize(v, nx)
    /\ npc' = "once"
    /\ UNCHANGED <<nx, nw, nz, ntok, rules, pc, scanned, builds, stdout, appVars, spVars, animVars, fsVars>>

\* normalize(normalize(x))
NormTwice ==
    /\ prog = "normalizers"
    /\ npc = "once"
    /\ nz' = Normalize(nv, ny)
    /\ npc' = "twice"
    /\ UNCHANGED <<nx, nw, nv, ny, ntok, rules, pc, scanned, builds, stdout, appVars, spVars, animVars, fsVars>>

\* ------------------------------------------------------------------------
\* The normalizers applied to two spellings of a word.
\* ------------------------------------------------------------------------

\* The characters the spellings are made of.
KeyChars == {"e", "e_acute", "E_ACUTE", "acute", "s", "S", "ss_sharp"}

\* The longest spelling.
MaxKeyLen == 2

KeyStrings == UNION {[1..n -> KeyChars] : n \in 0..MaxKeyLen}

\* normalize(x) and normalize(w)
KeyPair(v) ==
    /\ prog = "keys"
    /\ npc = "in"
    /\ nv' = v
    /\ ny' = Normalize(v, nx)
    /\ nz' = Normalize(v, nw)
    /\ npc' = "keys"
    /\ UNCHANGED <<nx, nw, ntok, rules, pc, scanned, builds, stdout, appVars, spVars, animVars, fsVars>>

\* ------------------------------------------------------------------------
\* The normalizers applied to a text, and the split of their output.
\* ------------------------------------------------------------------------

\* The characters the texts are made of.
TextChars == {"a", "'", "_", " ", "TAB"}

\* The longest text.
MaxTextLen == 5

TextStrings == UNION {[1..n -> TextChars] : n \in 0..MaxTextLen}

\* normalized.split()
SplitText ==
    /\ prog = "normalizers"
    /\ npc = "once"
    /\ ntok' = Split(ny)
    /\ npc' = "tokens"
    /\ UNCHANGED <<nx, nw, nv, ny, nz, rules, pc, scanned, builds, stdout, appVars, spVars, animVars, fsVars>>

\* ------------------------------------------------------------------------
\* The Lemmatizer (spec 4.2): lemmatize(token) over a LemmaRuleSet.
\* ------------------------------------------------------------------------

WordSlt == <<"s", "l", "t">>
WordSalut == <<"s", "a", "l", "u", "t">>
WordSalutations == <<"s", "a", "l", "u", "t", "a", "t", "i", "o", "n", "s">>
WordVais == <<"v", "a", "i", "s">>
WordAller == <<"a", "l", "l", "e", "r">>
WordYeux == <<"y", "e", "u", "x">>
WordOeil == <<"o", "e", "i", "l">>
WordAlus == <<"a", "l", "u", "s">>

\* Tables of French: an abbreviation and a greeting in the synonym table, a
\* form of "aller" in the conjugation table, an irregular plural.
RulesFrench ==
    [synonyms |-> (WordSlt :> WordSalut) @@ (WordSalutations :> WordSalut),
     conjugations |-> (WordVais :> WordAller),
     plural_exceptions |-> (WordYeux :> WordOeil)]

\* Tables that share a key, which the suffix rules would strip as well.
RulesAllThree ==
    [synonyms |-> (WordAlus :> <<"a">>),
     conjugations |-> (WordAlus :> <<"l">>),
     plural_exceptions |-> (WordAlus :> <<"u">>)]

RulesConjPlural ==
    [synonyms |-> EmptyMap,
     conjugations |-> (WordAlus :> <<"l">>),
     plural_exceptions |-> (WordAlus :> <<"u">>)]

RulesPluralOnly ==
    [synonyms |-> EmptyMap,
     conjugations |-> EmptyMap,
     plural_exceptions |-> (WordAlus :> <<"u">>)]

RuleSets == {RulesNone, RulesFrench, RulesAllThree, RulesConjPlural, RulesPluralOnly}

\* The three-letter suffix of an -al singular, the common plural marker and
\* the rarer plural marker.
SuffixAux == <<"a", "u", "x">>
MarkerS == <<"s">>
MarkerX == <<"x">>

Stem(token, n) == SubSeq(token, 1, Len(token) - n)

\* 4. the suffix heuristics, then 5. the identity fallback.
suffix_rules(token) ==
    IF EndsWith(token, SuffixAux) /\ Len(token) > 4
    THEN Stem(token, 3) \o <<"a", "l">>
    ELSE IF EndsWith(token, MarkerS) /\ Len(token) > 2
    THEN IF ~EndsWith(Stem(token, 1), MarkerS) /\ Len(Stem(token, 1)) > 1
         THEN Stem(token, 1)
         ELSE token
    ELSE IF EndsWith(token, MarkerX) /\ Len(token) > 2
    THEN IF Len(Stem(token, 1)) > 1 THEN Stem(token, 1) ELSE token
    ELSE token

\* A cascade that asks the conjugation table before the synonym table
\* (mutant).
lemmatizeConjugationFirst(token, rs) ==
    IF token \in DOMAIN rs.conjugations THEN rs.conjugations[token]
    ELSE IF token \in DOMAIN rs.synonyms THEN rs.synonyms[token]
    ELSE IF token \in DOMAIN rs.plural_exceptions THEN rs.plural_exceptions[token]
    ELSE suffix_rules(token)

\* lemmatize(token): the first stage that matches wins.
lemmatize(token, rs) ==
    IF token \in DOMAIN rs.synonyms THEN rs.synonyms[token]
    ELSE IF token \in DOMAIN rs.conjugations THEN rs.conjugations[token]
    ELSE IF token \in DOMAIN rs.plural_exceptions THEN rs.plural_exceptions[token]
    ELSE suffix_rules(token)

\* The letters the generated tokens are made of.
LemmaChars == {"a", "l", "s", "u", "x"}

\* The longest generated token.
MaxTokLen == 5

TableTokens(rs) ==
    UNION {(DOMAIN rs[t]) \cup {rs[t][k] : k \in DOMAIN rs[t]} :
             t \in {"synonyms", "conjugations", "plural_exceptions"}}

\* The tokens given to lemmatize: the generated ones and the keys and values
\* of the tables.
Tokens(rs) == UNION {[1..n -> LemmaChars] : n \in 1..MaxTokLen} \cup TableTokens(rs)

\* lemmatize(x)
LemmaOnce ==
    /\ prog = "lemmatizer"
    /\ npc = "in"
    /\ ny' = lemmatize(nx, rules)
    /\ npc' = "once"
    /\ UNCHANGED <<nx, nw, nv, nz, ntok, rules, pc, scanned, builds, stdout, appVars, spVars, animVars, fsVars>>

\* lemmatize(lemmatize(x))
LemmaTwice ==
    /\ prog = "lemmatizer"
    /\ npc = "once"
    /\ nz' = lemmatize(ny, rules)
    /\ npc' = "twice"
    /\ UNCHANGED <<nx, nw, nv, ny, ntok, rules, pc, scanned, builds, stdout, appVars, spVars, animVars, fsVars>>

\* ------------------------------------------------------------------------
\* The specifications.
\* ------------------------------------------------------------------------

\* The programs over a directory tree: the web application, the sign
\* processor library and the animation database library.
Init ==
    /\ InitCommon
    /\ mfile = NoManifest
    /\ cfile = NoManifest
    /\ prog \in {"app", "app_import", "sign_processor", "animation_db"}
    /\ rootExists \in BOOLEAN
    /\ listing \in Listings(CASE prog \in {"app", "app_import"} -> VideoFiles
                              [] prog = "sign_processor" -> SignFiles
                              [] prog = "animation_db" -> AnimFiles)
    /\ rootExists = FALSE => listing = <<>>
    /\ prog = "sign_processor" => rootExists
    /\ nx = <<>>
    /\ nw = <<>>
    /\ rules = RulesNone

Next ==
    \/ LoadVideoStart
    \/ LoadVideoStep
    \/ LoadVideoEnd
    \/ AppRun
    \/ \E r \in Slots, body \in Bodies : TranslateRecv(r, body)
    \/ \E r \in Slots : TranslateLoop(r)
    \/ \E r \in Slots : TranslateRespond(r)
    \/ \E r \in Slots, body \in Bodies : AvatarRecv(r, body)
    \/ \E r \in Slots : AvatarLoop(r)
    \/ \E r \in Slots : AvatarRespond(r)
    \/ \E r \in Slots : Deliver(r)
    \/ SignBuildStart
    \/ SignBuildStep
    \/ SignBuildEnd
    \/ \E text \in Texts : ProcessText(text)
    \/ AnimLoadStart
    \/ AnimLoadStep
    \/ AnimLoadEnd

Spec == Init /\ [][Next]_vars

\* The animation database library: the directory tree and the manifest file are
\* loaded, the manifest is saved, sequences are asked for.
InitAnimDb ==
    /\ InitCommon
    /\ prog = "animation_db"
    /\ rootExists \in BOOLEAN
    /\ listing \in Listings(LibraryFiles)
    /\ rootExists = FALSE => listing = <<>>
    /\ mfile \in Manifests
    /\ cfile = NoManifest
    /\ nx = <<>>
    /\ nw = <<>>
    /\ rules = RulesNone

NextAnimDb ==
    \/ AnimLoadStart
    \/ AnimLoadStep
    \/ AnimLoadEnd
    \/ LoadFromManifest
    \/ \E ok \in BOOLEAN : SaveManifest(ok)
    \/ NewDatabase
    \/ \E sign_ids \in SignIdLists : GetAnimationSequence(sign_ids)

SpecAnimDb == InitAnimDb /\ [][NextAnimDb]_vars

\* The avatar manager library: avatars are loaded from the config file and
\* registered, the default is set and asked for.
InitAvatar ==
    /\ InitCommon
    /\ prog = "avatar_manager"
    /\ rootExists = TRUE
    /\ listing = <<>>
    /\ mfile = NoManifest
    /\ cfile \in Configs
    /\ nx = <<>>
    /\ nw = <<>>
    /\ rules = RulesNone

NextAvatar ==
    \/ LoadAvatarsFromConfig
    \/ \E id \in AvatarIds : RegisterAvatar(id)
    \/ \E id \in AvatarIds : SetDefaultAvatar(id)
    \/ GetAvatar

SpecAvatar == InitAvatar /\ [][NextAvatar]_vars

\* The normalizers over every string of at most MaxLen characters.
InitNorm ==
    /\ InitCommon
    /\ mfile = NoManifest
    /\ cfile = NoManifest
    /\ prog = "normalizers"
    /\ rootExists = FALSE
    /\ listing = <<>>
    /\ nx \in Strings
    /\ nw = <<>>
    /\ rules = RulesNone

NextNorm ==
    \/ \E v \in Variants : NormOnce(v)
    \/ NormTwice

SpecNorm == InitNorm /\ [][NextNorm]_vars

\* The normalizers over every pair of spellings of at most MaxKeyLen
\* characters.
InitKey ==
    /\ InitCommon
    /\ mfile = NoManifest
    /\ cfile = NoManifest
    /\ prog = "keys"
    /\ rootExists = FALSE
    /\ listing = <<>>
    /\ nx \in KeyStrings
    /\ nw \in KeyStrings
    /\ rules = RulesNone

NextKey == \E v \in Variants : KeyPair(v)

SpecKey == InitKey /\ [][NextKey]_vars

\* The normalizers and the split over every text of at most MaxTextLen
\* characters.
InitText ==
    /\ InitCommon
    /\ mfile = NoManifest
    /\ cfile = NoManifest
    /\ prog = "normalizers"
    /\ rootExists = FALSE
    /\ listing = <<>>
    /\ nx \in TextStrings
    /\ nw = <<>>
    /\ rules = RulesNone

NextText ==
    \/ \E v \in Variants : NormOnce(v)
    \/ SplitText

SpecText == InitText /\ [][NextText]_vars

\* The Lemmatizer over every rule set and every token.
InitLemma ==
    /\ InitCommon
    /\ mfile = NoManifest
    /\ cfile = NoManifest
    /\ prog = "lemmatizer"
    /\ rootExists = FALSE
    /\ listing = <<>>
    /\ rules \in RuleSets
    /\ nx \in Tokens(rules)
    /\ nw = <<>>

NextLemma ==
    \/ LemmaOnce
    \/ LemmaTwice

SpecLemma == InitLemma /\ [][NextLemma]_vars

\* ------------------------------------------------------------------------
\* Properties.
\* ------------------------------------------------------------------------

\* The tokens of a validated request text.
TokensOf(body) == Split(normalize_text(Strip(body.text)))

\* A /translate (mode "video") or /api/avatar/translate (mode "avatar") call
\* on a validated text has built its answer in slot r.
Answered(r, mode) ==
    /\ req[r].pc = "done"
    /\ req[r].mode = mode
    /\ Validated(req[r].body)

WordBonjour == <<"b", "o", "n", "j", "o", "u", "r">>
WordDocteur == <<"d", "o", "c", "t", "e", "u", "r">>
WordXyz == <<"x", "y", "z">>

\* C1: the matched list a translate call returns is the subsequence of the
\* input's normalized tokens that are keys of the index and the missing list
\* is the subsequence of those that are not, both in input order and with
\* repetitions kept; for /translate (text_to_videos) and for
\* SignProcessor.process_text.
C1_OrderedPartition ==
    /\ \A r \in Slots :
         Answered(r, "video") =>
           LET InIndex(w) == w \in DOMAIN video_database
               NotInIndex(w) == w \notin DOMAIN video_database
           IN  /\ req[r].resp.matched_words = SelectSeq(TokensOf(req[r].body), InIndex)
               /\ req[r].resp.missing_words = SelectSeq(TokensOf(req[r].body), NotInIndex)
    /\ (prog = "sign_processor" /\ sp_result # NoResp) =>
           LET InIndex(w) == w \in DOMAIN sp_database
               NotInIndex(w) == w \notin DOMAIN sp_database
               tokens == Split(SP_normalize_text(sp_result.original_text))
           IN  /\ [i \in 1..Len(sp_result.matched_signs) |-> sp_result.matched_signs[i].word]
                     = SelectSeq(tokens, InIndex)
               /\ sp_result.missing_words = SelectSeq(tokens, NotInIndex)

\* C1's case: "bonjour docteur xyz" answered with two matches and one missing
\* word, in order, and "Bonjour, bonjour" answered with the repeated word
\* matched twice.
C1_Witness ==
    /\ Answered(1, "video")
    /\ req[1].resp.matched_words = <<WordBonjour, WordDocteur>>
    /\ req[1].resp.missing_words = <<WordXyz>>
    /\ Answered(2, "video")
    /\ req[2].resp.matched_words = <<WordBonjour, WordBonjour>>

\* How far the build in progress, or a finished one, has read the listing.
ScannedEver == IF builds > 1 THEN Len(listing) ELSE scanned

\* Every key of the three indexes maps to the path of the first discovered
\* file that reduces to the key.
C2_FirstFileOfKey ==
    /\ \A k \in DOMAIN video_database :
         \E i \in 1..ScannedEver :
            /\ IsMp4(listing[i]) /\ VideoKey(listing[i]) = k
            /\ video_database[k] = relpath(listing[i])
            /\ \A j \in 1..(i - 1) : ~(IsMp4(listing[j]) /\ VideoKey(listing[j]) = k)
    /\ \A k \in DOMAIN animations :
         \E i \in 1..ScannedEver :
            /\ AnimExt(listing[i]) \in supported_formats /\ AnimKey(listing[i]) = k
            /\ animations[k].file_path = relpath(listing[i])
            /\ \A j \in 1..(i - 1) :
                  ~(AnimExt(listing[j]) \in supported_formats /\ AnimKey(listing[j]) = k)
    /\ \A k \in DOMAIN sp_database :
         \E i \in 1..ScannedEver : SignKey(listing[i]) = k /\ sp_database[k] = k

\* No step changes the value of a key that is present.
C2_NoOverwrite ==
    /\ \A k \in DOMAIN video_database :
         k \in DOMAIN video_database' /\ video_database'[k] = video_database[k]
    /\ \A k \in DOMAIN animations :
         k \in DOMAIN animations' /\ animations'[k] = animations[k]
    /\ \A k \in DOMAIN sp_database :
         k \in DOMAIN sp_database' /\ sp_database'[k] = sp_database[k]

\* C2: during index construction each key maps to one path, that of the
\* first discovered file that reduces to the key, and once a key is present
\* no later file with the same key overwrites its value.
C2_FirstWins == []C2_FirstFileOfKey /\ [][C2_NoOverwrite]_vars

\* C2's case: the build has met two files of one key and kept the first.
C2_Witness ==
    /\ prog = "app"
    /\ scanned = 2
    /\ IsMp4(listing[1]) /\ IsMp4(listing[2])
    /\ VideoKey(listing[1]) = VideoKey(listing[2])
    /\ video_database[VideoKey(listing[2])] = relpath(listing[1])

Range(seq) == {seq[i] : i \in 1..Len(seq)}

\* The build has returned.
BuildDone == pc \in {"loaded", "serving", "ready"}

\* C3: every file the build drops because its key is already present is
\* recorded as a (key, dropped path) record, and there are as many such
\* records as allowed-extension files scanned minus index entries; for
\* load_video_database and for AnimationDatabase.load_from_filesystem.
C3_CollisionsRecorded ==
    /\ (prog = "app" /\ BuildDone) =>
         /\ \A i \in 1..Len(listing) :
              (IsMp4(listing[i]) /\ video_database[VideoKey(listing[i])] # relpath(listing[i]))
                 => \E rec \in Range(stdout) :
                       /\ DOMAIN rec = {"kind", "key", "path"}
                       /\ rec.key = VideoKey(listing[i])
                       /\ rec.path = relpath(listing[i])
         /\ Cardinality({j \in 1..Len(stdout) : "key" \in DOMAIN stdout[j]})
              = Cardinality({i \in 1..Len(listing) : IsMp4(listing[i])})
                  - Cardinality(DOMAIN video_database)
    /\ (prog = "animation_db" /\ BuildDone /\ builds = 1) =>
         /\ \A i \in 1..Len(listing) :
              (/\ AnimExt(listing[i]) \in supported_formats
               /\ animations[AnimKey(listing[i])].file_path # relpath(listing[i]))
                 => \E rec \in Range(stdout) :
                       /\ DOMAIN rec = {"kind", "key", "path"}
                       /\ rec.key = AnimKey(listing[i])
                       /\ rec.path = relpath(listing[i])
         /\ Cardinality({j \in 1..Len(stdout) : "key" \in DOMAIN stdout[j]})
              = Cardinality({i \in 1..Len(listing) : AnimExt(listing[i]) \in supported_formats})
                  - Cardinality(DOMAIN animations)

\* C4: no step of a translate call (/translate, /api/avatar/translate,
\* process_text) adds, removes or changes an entry of the index it reads.
C4_QueriesLeaveIndex ==
    [][/\ pc = "serving" => video_database' = video_database
       /\ (prog = "sign_processor" /\ pc = "ready") => sp_database' = sp_database]_vars

\* C4's case: a query over a non-empty index has been answered with a match
\* and a missing word.
C4_Witness ==
    /\ video_database # EmptyMap
    /\ \E r \in Slots :
          /\ Answered(r, "video")
          /\ req[r].resp.matched_words # <<>>
          /\ req[r].resp.missing_words # <<>>

\* C5: whatever the interleaving of the calls in flight, a call answers what
\* it answers when it runs alone over the index.
C5_AnswersAsAlone ==
    \A r \in Slots :
       /\ (req[r].pc = "done" /\ req[r].mode = "video")
             => req[r].resp = TranslateAlone(req[r].body, video_database)
       /\ (req[r].pc = "done" /\ req[r].mode = "avatar")
             => req[r].resp = AvatarAlone(req[r].body, video_database)

\* C5's case: a call has answered with matches while another call, on another
\* text, is in the middle of its loop.
C5_Witness ==
    /\ Answered(1, "video")
    /\ req[1].resp.matched_words # <<>>
    /\ req[2].pc = "loop"
    /\ req[2].i = 2
    /\ req[2].matched # <<>>
    /\ req[2].body # req[1].body

\* C6: the index is built once and the build has returned before a request
\* is served: a request is in flight only while the server runs, the server
\* runs only after the one build has read the whole listing, and the build is
\* never entered again.
C6_BuildOnceBeforeServing ==
    prog = "app" =>
       /\ builds <= 1
       /\ (\E r \in Slots : req[r].pc # "idle") => pc = "serving"
       /\ pc = "serving" => (builds = 1 /\ (rootExists => scanned = Len(listing)))
       /\ pc = "walk" => \A r \in Slots : req[r].pc = "idle"

\* C6's case: a request is answered from an index built from two files.
C6_Witness ==
    /\ prog = "app"
    /\ pc = "serving"
    /\ Cardinality(DOMAIN video_database) = 2
    /\ \E r \in Slots : Answered(r, "video")

\* C7: with the asset root missing the build does not fail: it returns (the
\* program is at "loaded", then "serving", or "ready" for the animation
\* database, never stopped by an error), the index has no entry and a
\* warning is printed (and load_from_filesystem returns 0).
C7_MissingRootIsNotFatal ==
    /\ (prog = "app" /\ ~rootExists /\ pc # "start") =>
          /\ pc \in {"loaded", "serving"}
          /\ video_database = EmptyMap
          /\ [kind |-> "WARNING: Video directory not found"] \in Range(stdout)
    /\ (prog = "animation_db" /\ ~rootExists /\ pc # "start") =>
          /\ pc = "ready"
          /\ animations = EmptyMap
          /\ load_result = 0
          /\ [kind |-> "Warning: Animation directory not found"] \in Range(stdout)

\* C7's case: with the root missing, the server runs and has answered a
\* request.
C7_Witness ==
    /\ prog = "app"
    /\ ~rootExists
    /\ \E r \in Slots : Answered(r, "video") /\ req[r].resp.status = 200

\* C8 as stated: with the asset root missing, every translate call, in the
\* video mode and in the avatar mode, answers with no match and with every
\* token of the input missing.
C8_EmptyIndexNoMatch ==
    (prog = "app" /\ ~rootExists) =>
       \A r \in Slots :
          (Answered(r, "video") \/ Answered(r, "avatar")) =>
             /\ req[r].resp.success = FALSE
             /\ req[r].resp.matched_words = <<>>
             /\ req[r].resp.missing_words = TokensOf(req[r].body)

\* C8 amended: with the asset root missing, a /translate call answers with no
\* match and every token missing; an /api/avatar/translate call matches
\* exactly the tokens that are keys of animation_map, in order, and reports
\* the others missing.
C8_EmptyIndexAmended ==
    (prog = "app" /\ ~rootExists) =>
       \A r \in Slots :
          /\ Answered(r, "video") =>
                /\ req[r].resp.success = FALSE
                /\ req[r].resp.videos = <<>>
                /\ req[r].resp.matched_words = <<>>
                /\ req[r].resp.missing_words = TokensOf(req[r].body)
          /\ Answered(r, "avatar") =>
                LET InMap(w) == w \in DOMAIN animation_map
                    NotInMap(w) == w \notin DOMAIN animation_map
                IN  /\ req[r].resp.matched_words = SelectSeq(TokensOf(req[r].body), InMap)
                    /\ req[r].resp.missing_words = SelectSeq(TokensOf(req[r].body), NotInMap)
                    /\ req[r].resp.success = (req[r].resp.matched_words # <<>>)

\* C8's case: with the root missing, "bonjour docteur xyz" is answered in
\* both modes.
C8_Witness ==
    /\ prog = "app"
    /\ ~rootExists
    /\ Answered(1, "video")
    /\ req[1].resp.missing_words = <<WordBonjour, WordDocteur, WordXyz>>
    /\ Answered(2, "avatar")
    /\ req[2].resp.matched_words = <<WordBonjour>>
    /\ req[2].resp.missing_words = <<WordDocteur, WordXyz>>

\* C9 as stated: of full (no token is missing), none (no token resolved) and
\* partial (some resolved, some missing), exactly one applies to the answer
\* to every input.
C9_ExactlyOneOutcome ==
    \A r \in Slots :
       Answered(r, "video") =>
          LET full == req[r].resp.missing_words = <<>>
              none == req[r].resp.matched_words = <<>>
              partial == req[r].resp.matched_words # <<>> /\ req[r].resp.missing_words # <<>>
          IN  /\ full \/ none \/ partial
              /\ ~(full /\ none) /\ ~(full /\ partial) /\ ~(none /\ partial)

\* Some token of the sequence is a key of the index / is not.
SomeIn(tokens, db) == \E i \in 1..Len(tokens) : tokens[i] \in DOMAIN db
SomeOut(tokens, db) == \E i \in 1..Len(tokens) : tokens[i] \notin DOMAIN db

\* C9 amended: the answer of /translate carries success, matched_words and
\* missing_words; success is false exactly when no token resolved (none),
\* which includes a text without tokens; when success is true, missing_words
\* is empty exactly when every token resolved (full) and non-empty when some
\* did not (partial); exactly one of the three applies.
C9_OutcomeFromAnswer ==
    \A r \in Slots :
       Answered(r, "video") =>
          LET tokens == TokensOf(req[r].body)
              none == ~req[r].resp.success
              full == req[r].resp.success /\ req[r].resp.missing_words = <<>>
              partial == req[r].resp.success /\ req[r].resp.missing_words # <<>>
          IN  /\ none = ~SomeIn(tokens, video_database)
              /\ full = (SomeIn(tokens, video_database) /\ ~SomeOut(tokens, video_database))
              /\ partial = (SomeIn(tokens, video_database) /\ SomeOut(tokens, video_database))
              /\ none => (req[r].resp.matched_words = <<>> /\ req[r].resp.videos = <<>>)

\* C9's case: one call answered partial while another answered full.
C9_Witness ==
    /\ Answered(1, "video")
    /\ req[1].resp.success
    /\ req[1].resp.missing_words = <<WordXyz>>
    /\ Answered(2, "video")
    /\ req[2].resp.success
    /\ req[2].resp.missing_words = <<>>

\* C10: each normalizer is a projection: normalize(normalize(x)) =
\* normalize(x) for every string x.
C10_NormalizeIsProjection == npc = "twice" => nz = ny

\* The characters of s are letters, accents of category Mn, punctuation and
\* whitespace.
IsLatin(s) == \A i \in 1..Len(s) : CCC(s[i]) = 0 \/ IsMn(s[i])

\* On a string without a combining mark outside the category Mn each
\* normalizer is a projection.
NormalizeIsProjectionOnLatin == (npc = "twice" /\ IsLatin(nx)) => nz = ny

\* Unicode case folding of one character (CaseFolding.txt, statuses C and
\* F): "ss_sharp" folds to "ss".
CaseFoldChar(c) ==
    IF c = "ss_sharp" THEN <<"s", "s">> ELSE <<LowerChar(c)>>

\* The letters of a spelling, without case and without diacritics.
Letters(s) == StripAccents(Flatten([i \in 1..Len(s) |-> CaseFoldChar(s[i])]))

\* Two spellings that differ only in letter case and in diacritics.
SameLetters(x, w) == Letters(x) = Letters(w)

HasSharpS(s) == \E i \in 1..Len(s) : s[i] = "ss_sharp"

\* C11: two strings that differ only in letter case and in diacritics on
\* their letters have the same canonical key, under each normalizer.
C11_KeyIgnoresCaseAndAccents ==
    (npc = "keys" /\ SameLetters(nx, nw)) => ny = nz

\* The same for the spellings without a sharp s: the letters and accents of
\* French.
KeyIgnoresCaseAndAccentsOfFrench ==
    (npc = "keys" /\ SameLetters(nx, nw) /\ ~HasSharpS(nx) /\ ~HasSharpS(nw))
        => ny = nz

\* Two different spellings of one word have one key.
KeyVariantsReached ==
    /\ npc = "keys"
    /\ nx = <<"E_ACUTE", "s">>
    /\ nw = <<"e", "S">>
    /\ ny = nz

IsSpace(c) == c \in Whitespace

\* No whitespace at either end and no two whitespace characters in a row.
Collapsed(s) ==
    /\ s # <<>> => (~IsSpace(s[1]) /\ ~IsSpace(s[Len(s)]))
    /\ \A i \in 1..(Len(s) - 1) : ~(IsSpace(s[i]) /\ IsSpace(s[i + 1]))

\* C12: the output of normalize has no leading or trailing whitespace and
\* no two consecutive whitespace characters, whatever the input.
C12_OutputCollapsed == npc = "once" => Collapsed(ny)

\* The same for the two normalizers that join the split of the text.
OutputCollapsedOutsideApp ==
    (npc = "once" /\ nv # "app") => Collapsed(ny)

\* The word-boundary-preserving policy: each punctuation character becomes
\* a space.
PunctAsSpace(s) ==
    [i \in 1..Len(s) |-> IF s[i] \in Punctuation THEN " " ELSE s[i]]

\* The tokens of a text under the word-boundary-preserving policy.
WordsKeptApart(text) == Split(PunctAsSpace(StripAccents(Lower(text))))

\* C13: under the default punctuation policy each punctuation character is
\* replaced by a space, so the tokens of a text are the words that its
\* whitespace and its punctuation separate: two words separated only by
\* punctuation are two tokens.
C13_PunctuationSeparatesWords ==
    (npc = "tokens" /\ nv \in {"app", "sign_processor"})
        => ntok = WordsKeptApart(nx)

\* C14: lemmatize(lemmatize(x)) = lemmatize(x) for every key and value of
\* the rule tables and every generated token x.
C14_LemmatizeIdempotent == npc = "twice" => nz = ny

\* The same for the keys and the values of the tables alone.
LemmatizeIdempotentOnTables ==
    (npc = "twice" /\ nx \in TableTokens(rules)) => nz = ny

InNoTable(token, rs) ==
    /\ token \notin DOMAIN rs.synonyms
    /\ token \notin DOMAIN rs.conjugations
    /\ token \notin DOMAIN rs.plural_exceptions

\* C15: the resolution order is first-match-wins: a key of the synonym
\* table is mapped to its headword, whatever the conjugation table, the
\* plural-exception table and the suffix rules would make of it; a key of
\* the conjugation table that is no synonym is mapped to its infinitive; a
\* key of the plural-exception table alone is mapped to its singular.
C15_FirstMatchWins ==
    npc \in {"once", "twice"} =>
       /\ nx \in DOMAIN rules.synonyms => ny = rules.synonyms[nx]
       /\ (nx \notin DOMAIN rules.synonyms /\ nx \in DOMAIN rules.conjugations)
             => ny = rules.conjugations[nx]
       /\ (/\ nx \notin DOMAIN rules.synonyms
           /\ nx \notin DOMAIN rules.conjugations
           /\ nx \in DOMAIN rules.plural_exceptions)
             => ny = rules.plural_exceptions[nx]

\* C15's case: a token that is a key of the three tables and ends in the
\* plural marker has been mapped to its synonym headword.
C15_Witness ==
    /\ npc = "once"
    /\ nx \in DOMAIN rules.synonyms
    /\ nx \in DOMAIN rules.conjugations
    /\ nx \in DOMAIN rules.plural_exceptions
    /\ rules.conjugations[nx] # rules.synonyms[nx]
    /\ suffix_rules(nx) # nx
    /\ ny = rules.synonyms[nx]

\* C16: a short word that ends in the plural marker "s" and is in none of
\* the exact tables is returned unchanged.
C16_ShortSingularKept ==
    (/\ npc = "once"
     /\ EndsWith(nx, MarkerS)
     /\ Len(nx) <= 3
     /\ InNoTable(nx, rules))
        => ny = nx

\* What the guards keep: a word of at most two letters, and a word whose
\* stem ends in the marker too.
GuardedSingularKept ==
    (/\ npc = "once"
     /\ EndsWith(nx, MarkerS)
     /\ (Len(nx) <= 2 \/ EndsWith(Stem(nx, 1), MarkerS))
     /\ InNoTable(nx, rules))
        => ny = nx

WordHopital == <<"h", "o", "p", "i", "t", "a", "l">>

\* A conjugated form among the tokens, whose infinitive is a key of the
\* index, is matched.
ConjugatedMatched(tokens, matched, db) ==
    \A i \in 1..Len(tokens) :
       (/\ tokens[i] \in DOMAIN RulesFrench.conjugations
        /\ RulesFrench.conjugations[tokens[i]] \in DOMAIN db)
          => \/ tokens[i] \in Range(matched)
             \/ RulesFrench.conjugations[tokens[i]] \in Range(matched)

\* C17: translate looks each token up under its lemma: a conjugated form
\* ("vais") is matched whenever its infinitive ("aller") is a key of the
\* index, and "je vais \`a l'h\^opital" finds the entry of the key "hopital";
\* for /translate and for SignProcessor.process_text.
C17_LooksUpLemma ==
    /\ \A r \in Slots :
          Answered(r, "video") =>
             /\ ConjugatedMatched(TokensOf(req[r].body), req[r].resp.matched_words,
                                  video_database)
             /\ (req[r].body.text = TextVais /\ WordHopital \in DOMAIN video_database)
                   => video_database[WordHopital] \in Range(req[r].resp.videos)
    /\ (prog = "sign_processor" /\ sp_result # NoResp) =>
          /\ ConjugatedMatched(tokenize(sp_result.normalized_text),
                               sp_result.matched_signs, sp_database)
          /\ (sp_result.original_text = TextVais /\ WordHopital \in DOMAIN sp_database)
                => WordHopital \in Range(sp_result.matched_signs)

\* The part of it that does not need the lemma: with no conjugated form and
\* no elision in the text, every token that is a key is matched.
KeysMatchedAsTheyAre ==
    \A r \in Slots :
       Answered(r, "video") =>
          \A i \in 1..Len(TokensOf(req[r].body)) :
             TokensOf(req[r].body)[i] \in DOMAIN video_database
                => TokensOf(req[r].body)[i] \in Range(req[r].resp.matched_words)

\* C18: a build over an unchanged tree in an unchanged order gives the same
\* index, the same keys with the same paths, as a build of that tree on a
\* fresh index: when load_video_database has returned, and at every point of
\* a second call of it on the built index; the same for
\* AnimationDatabase.load_from_filesystem.
C18_RebuildSameIndex ==
    /\ (prog \in {"app", "app_import"} /\ (pc \in {"loaded", "serving"} \/ builds > 1))
          => video_database = VideoBuildFrom(EmptyMap, listing, 1)
    /\ (prog = "animation_db" /\ (pc = "ready" \/ builds > 1))
          => animations = AnimBuildFrom(EmptyMap, listing, 1)

\* C18's case: a second build has read again the two files of one key that
\* the built index holds under the path of the first.
C18_Witness ==
    /\ prog = "animation_db"
    /\ builds = 2
    /\ pc = "ready"
    /\ Len(listing) = 2
    /\ AnimKey(listing[1]) = AnimKey(listing[2])
    /\ DOMAIN animations = {AnimKey(listing[1])}
    /\ animations[AnimKey(listing[1])].file_path = relpath(listing[1])

\* The same case for load_video_database.
RebuiltVideoIndexReached ==
    /\ prog = "app_import"
    /\ builds = 2
    /\ pc = "loaded"
    /\ Len(listing) = 2
    /\ VideoKey(listing[1]) = VideoKey(listing[2])
    /\ video_database[VideoKey(listing[1])] = relpath(listing[1])

\* A body without a text, or with an empty or whitespace-only one.
Blank(body) ==
    ~body.has_text \/ \A i \in 1..Len(body.text) : body.text[i] \in Whitespace

\* The handler of slot r has answered without entering the pipeline.
PipelineNotRun(r) ==
    /\ req[r].words = <<>>
    /\ req[r].i = 0
    /\ req[r].items = <<>>
    /\ req[r].matched = <<>>
    /\ req[r].missing = <<>>

C20_StemKeyIsQueryKey ==
    (npc = "once" /\ nv = "animation_db") => ny = SP_normalize_text(nx)

\* The same for the stems that hold no whitespace and no underscore.
StemKeyIsQueryKeyOfPlainWord ==
    (/\ npc = "once"
     /\ nv = "animation_db"
     /\ \A i \in 1..Len(nx) : nx[i] \notin Whitespace \cup {"_"})
        => ny = SP_normalize_text(nx)

MedicalWords == MedicalWave \cup MedicalWalking \cup MedicalSadIdle \cup MedicalHappyIdle

\* C21: in the avatar mode a token that is a key of the video index, with
\* no entry in animation_map and in none of the medical lists, is matched
\* with the animation 'Idle' and is not missing; a token is missing exactly
\* when it is a key of neither animation_map nor the index.
C21_IndexKnownGetsIdle ==
    \A r \in Slots :
       Answered(r, "avatar") =>
          LET tokens == TokensOf(req[r].body)
              resp == req[r].resp
          IN  \A i \in 1..Len(tokens) :
                 /\ (/\ tokens[i] \in DOMAIN video_database
                     /\ tokens[i] \notin DOMAIN animation_map
                     /\ tokens[i] \notin MedicalWords)
                       => /\ tokens[i] \in Range(resp.matched_words)
                          /\ \A j \in 1..Len(resp.animations) :
                                resp.animations[j].word = tokens[i]
                                   => resp.animations[j].animation_name = "Idle"
                 /\ tokens[i] \in Range(resp.missing_words)
                       <=> (/\ tokens[i] \notin DOMAIN animation_map
                            /\ tokens[i] \notin DOMAIN video_database)
                 /\ tokens[i] \in Range(resp.matched_words)
                       <=> tokens[i] \notin Range(resp.missing_words)

\* C21's case: "xyz" is a key of the index and of no map, and the avatar
\* mode has matched it with 'Idle'.
C21_Witness ==
    \E r \in Slots :
       /\ Answered(r, "avatar")
       /\ req[r].body.text = TextOrder
       /\ WordXyz \in DOMAIN video_database
       /\ req[r].resp.missing_words = <<>>
       /\ \E j \in 1..Len(req[r].resp.animations) :
             /\ req[r].resp.animations[j].word = WordXyz
             /\ req[r].resp.animations[j].animation_name = "Idle"

\* C22: a get_animation_sequence call partitions its sign ids, in the order
\* they occur: the sequence holds one item for each sign id stored in the
\* database, missing holds the sign ids that are not stored, and the two
\* lengths add up to the number of sign ids.
C22_SequencePartitionsSignIds ==
    [][(seq_result' # seq_result /\ seq_result' # NoResp) =>
         LET r == seq_result'
             Stored(x) == x \in DOMAIN animations
             NotStored(x) == x \notin DOMAIN animations
         IN  /\ [i \in 1..Len(r.sequence) |-> r.sequence[i].sign_id]
                   = SelectSeq(r.sign_ids, Stored)
             /\ r.missing = SelectSeq(r.sign_ids, NotStored)
             /\ Len(r.sequence) + Len(r.missing) = Len(r.sign_ids)
             /\ \A i \in 1..Len(r.sequence) :
                    r.sequence[i].duration = animations[r.sequence[i].sign_id].duration]_vars

\* A call with a sign id that is not stored before one that is stored.
C22_Witness ==
    /\ seq_result # NoResp
    /\ Len(seq_result.sign_ids) = 2
    /\ seq_result.missing = <<seq_result.sign_ids[1]>>
    /\ Len(seq_result.sequence) = 1
    /\ seq_result.sequence[1].sign_id = seq_result.sign_ids[2]

\* The sum of the counts d holds under the keys ks.
RECURSIVE SumOver(_, _)
SumOver(d, ks) ==
    IF ks = {} THEN 0
    ELSE LET k == CHOOSE x \in ks : TRUE IN d[k] + SumOver(d, ks \ {k})

\* C26: after any sequence of load_from_filesystem and load_from_manifest
\* calls, stats['total_animations'] is the number of entries of animations, and
\* the counts of stats['by_format'] sum to that number.
C26_StatsCountEntries ==
    pc \in {"start", "ready"} =>
        /\ stats.total_animations = Cardinality(DOMAIN animations)
        /\ SumOver(stats.by_format, DOMAIN stats.by_format) = Cardinality(DOMAIN animations)

\* The statistics count the entries of a database no manifest call was made
\* on.
StatsCountEntriesOfFilesystemLoads ==
    (prog = "animation_db" /\ mcalls = NoCalls) =>
        /\ stats.total_animations = Cardinality(DOMAIN animations)
        /\ SumOver(stats.by_format, DOMAIN stats.by_format) = Cardinality(DOMAIN animations)

\* The step is a load_from_manifest call.
ManifestLoadStep ==
    /\ mcalls'.n = mcalls.n + 1
    /\ mcalls'.last.op = "load"

\* The step is a load_from_manifest call that failed: it printed the warning
\* or the error, and returned 0.
ManifestLoadFailed ==
    /\ ManifestLoadStep
    /\ load_result' = 0
    /\ mcalls'.last.printed \in {"Warning: Manifest file not found",
                               "Error loading manifest"}

\* C27: a load_from_manifest call that returns 0 because of a failure (the
\* manifest is missing or unreadable, or an entry cannot be parsed) leaves
\* animations and the statistics as they were before the call.
C27_FailedLoadChangesNothing ==
    [][ManifestLoadFailed => (animations' = animations /\ stats' = stats)]_vars

\* A failed load changes nothing when the failure comes before the first
\* entry: the file is missing or is not JSON.
FailedLoadBeforeEntriesChangesNothing ==
    [][(ManifestLoadFailed /\ mfile.kind # "json")
         => (animations' = animations /\ stats' = stats)]_vars

\* C28: loading the manifest save_manifest wrote into a fresh database gives
\* the sign ids and, for every sign id, the metadata fields of the saved
\* database.
C28_ManifestRoundTrip ==
    [][(/\ ManifestLoadStep
        /\ animations = EmptyMap
        /\ stats = InitStats
        /\ mfile.kind = "json"
        /\ mfile.written)
         => (/\ DOMAIN animations' = DOMAIN saved_db
             /\ \A k \in DOMAIN saved_db : animations'[k] = saved_db[k]
             /\ load_result' = Cardinality(DOMAIN saved_db))]_vars

\* A database holding an entry a manifest gave every field of, and an entry of
\* defaults, was saved and loaded back into a fresh database.
C28_Witness ==
    /\ mcalls.last = [op |-> "load", ret |-> 2, fresh |-> TRUE,
                       printed |-> "Loaded from manifest"]
    /\ mfile.kind = "json"
    /\ mfile.written
    /\ stats.total_animations = 2
    /\ DOMAIN saved_db = {WordMedecin, WordGenou}
    /\ saved_db[WordMedecin].movement_type = "tap"
    /\ saved_db[WordMedecin].transition_in = "0.5"
    /\ saved_db[WordGenou].file_path = EmptyPath
    /\ animations = saved_db

\* C23: in the answer of a translate call every normalized token is in exactly
\* one of matched and missing, the two lengths add up to the number of tokens,
\* a token is matched iff it is a key of the index, and the i-th returned path
\* is the index value of the i-th matched token; for /translate
\* (text_to_videos) and for SignProcessor.process_text.
C23_TokensSplitAndPathsAligned ==
    /\ \A r \in Slots :
         Answered(r, "video") =>
           LET tokens == TokensOf(req[r].body)
               matched == req[r].resp.matched_words
               missing == req[r].resp.missing_words
               videos == req[r].resp.videos
           IN  /\ Len(matched) + Len(missing) = Len(tokens)
               /\ \A i \in 1..Len(tokens) :
                    /\ (tokens[i] \in Range(matched)) # (tokens[i] \in Range(missing))
                    /\ (tokens[i] \in Range(matched)) <=> (tokens[i] \in DOMAIN video_database)
               /\ Len(videos) = Len(matched)
               /\ \A i \in 1..Len(matched) : videos[i] = video_database[matched[i]]
    /\ (prog = "sign_processor" /\ sp_result # NoResp) =>
           LET tokens == Split(SP_normalize_text(sp_result.original_text))
               signs == sp_result.matched_signs
               matched == [i \in 1..Len(signs) |-> signs[i].word]
               missing == sp_result.missing_words
           IN  /\ Len(matched) + Len(missing) = Len(tokens)
               /\ \A i \in 1..Len(tokens) :
                    /\ (tokens[i] \in Range(matched)) # (tokens[i] \in Range(missing))
                    /\ (tokens[i] \in Range(matched)) <=> (tokens[i] \in DOMAIN sp_database)
               /\ \A i \in 1..Len(signs) : signs[i].sign_id = sp_database[signs[i].word]

\* "bonjour docteur xyz" answered by /translate over an index whose files were
\* discovered docteur first: the paths come in the order of the words.
C23_Witness ==
    /\ listing = <<FileDocteur, FileBonjour>>
    /\ Answered(1, "video")
    /\ req[1].body.text = TextOrder
    /\ req[1].resp.videos = <<relpath(FileBonjour), relpath(FileDocteur)>>
    /\ req[1].resp.missing_words = <<WordXyz>>

\* C24: the success flag of a /translate answer to a validated input is true
\* iff at least one token of the input matched; when it is false, videos and
\* matched_words are empty and missing_words holds every token of the input.
C24_SuccessIffSomeTokenMatched ==
    \A r \in Slots :
       Answered(r, "video") =>
          LET tokens == TokensOf(req[r].body)
              resp == req[r].resp
          IN  /\ resp.success <=> (\E i \in 1..Len(tokens) : tokens[i] \in DOMAIN video_database)
              /\ ~resp.success =>
                    /\ resp.videos = <<>>
                    /\ resp.matched_words = <<>>
                    /\ resp.missing_words = tokens

\* "Bonjour, bonjour" answered without success, both tokens missing, and
\* "bonjour docteur xyz" answered with success over the same index.
C24_Witness ==
    /\ Answered(1, "video")
    /\ req[1].body.text = TextRepeat
    /\ ~req[1].resp.success
    /\ req[1].resp.missing_words = <<WordBonjour, WordBonjour>>
    /\ Answered(2, "video")
    /\ req[2].body.text = TextOrder
    /\ req[2].resp.success
    /\ req[2].resp.missing_words = <<WordBonjour, WordXyz>>

\* A key a text can ask for: it is not empty, holds no whitespace, and as a
\* text it splits into the one token that is the key.
ReachableKey(k) ==
    /\ k # <<>>
    /\ \A i \in 1..Len(k) : k[i] \notin Whitespace
    /\ Split(k) = <<k>>

\* C25: every key the build stores in the index is a non-empty string without
\* whitespace, so that some text has the key among its tokens; for
\* load_video_database and for create_sign_database_from_files.
C25_KeysAreReachable ==
    /\ \A k \in DOMAIN video_database : ReachableKey(k)
    /\ \A k \in DOMAIN sp_database : ReachableKey(k)

\* create_sign_database_from_files tests the key: its keys are not empty.
SignKeysAreNotEmpty == \A k \in DOMAIN sp_database : k # <<>>

\* The step is a set_default_avatar(id) call.
SetDefaultStep(id) ==
    /\ acalls'.n = acalls.n + 1
    /\ acalls'.last.op = "set_default"
    /\ acalls'.last.arg = id

\* The step is a get_avatar() call.
GetAvatarStep ==
    /\ acalls'.n = acalls.n + 1
    /\ acalls'.last.op = "get"

\* C29: set_default_avatar(id) changes default_avatar_id to id iff id is
\* registered, and with an unregistered id leaves default_avatar_id and the
\* registry unchanged; and get_avatar() with no argument returns a registered
\* avatar whenever the registry is not empty.
C29_DefaultIsRegistered ==
    [][/\ \A id \in AvatarIds :
            SetDefaultStep(id) =>
               /\ id \in DOMAIN avatars => default_avatar_id' = id
               /\ id \notin DOMAIN avatars =>
                     (default_avatar_id' = default_avatar_id /\ avatars' = avatars)
       /\ (GetAvatarStep /\ avatars # EmptyMap) =>
             /\ acalls'.last.avatar # <<>>
             /\ acalls'.last.avatar[1] \in Range([i \in 1..Cardinality(DOMAIN avatars) |->
                                                    avatars[KeyOrder(DOMAIN avatars)[i]]])]_vars

\* set_default_avatar(id) sets default_avatar_id to id when id is registered,
\* and else leaves default_avatar_id and the registry as they were.
SetDefaultOnlyRegistered ==
    [][\A id \in AvatarIds :
          SetDefaultStep(id) =>
             /\ id \in DOMAIN avatars => default_avatar_id' = id
             /\ id \notin DOMAIN avatars =>
                   (default_avatar_id' = default_avatar_id /\ avatars' = avatars)]_vars

\* get_avatar() returns the avatar registered under default_avatar_id when
\* there is one, and None when there is none.
GetAvatarReturnsDefaultOrNone ==
    [][GetAvatarStep =>
          acalls'.last.avatar = IF default_avatar_id \in DOMAIN avatars
                                THEN <<avatars[default_avatar_id]>>
                                ELSE <<>>]_vars

\* A default was set and then asked for.
SetDefaultThenGetReached ==
    /\ acalls.last.op = "get"
    /\ default_avatar_id = "nurse"
    /\ acalls.last.avatar = <<avatars["nurse"]>>

====
